---- MODULE Spec2Model ----
(***************************************************************************)
(* DRIFT: the on-chain session/touch state machine of DriftComposer.sol.   *)
(*                                                                         *)
(* One transaction is one atomic step.  A transaction that reverts leaves  *)
(* the contract storage and the event log as they were; the only trace of  *)
(* it is the receipt, kept in lastCall.                                    *)
(***************************************************************************)
EXTENDS Integers, Sequences, FiniteSets, TLC

\* ------------------------------------------------------------------ bounds
MaxEvents   == 3      \* length of the event log: successful transactions explored
MaxClampNotes == 1    \* touches accepted under SpecClamp
MaxTokens   == 2      \* token ids DriftSessionNFT allocates
MaxStarts   == 2      \* startListening calls made on the listener
MaxTicks    == 2      \* poll ticks in flight at once
MaxDelivered == 3     \* notes passed to onNote
MaxFetchFailures == 1 \* queries of fetchAllEvents that fail

\* ------------------------------------------------------- program constants
MAX_SESSION_BLOCKS == 43200
COORD_MIN == -1000
COORD_MAX == 1000
UINT16_MAX == 65535
CHUNK_SIZE == 5000
BLOCK_GAP_MS == 200
INTRA_BLOCK_GAP_MS == 80
LOOP_PAUSE_MS == 2000
FALLBACK_BLOCKS == 50000

\* ------------------------------------------------------------ environment
Owner       == "owner"          \* msg.sender of the constructor
ZeroAddress == "0x0"            \* address(0): the creator of an unwritten slot
Addresses   == {"owner", "alice", "bob"}

\* session ids that calls may name; id 0 is never allocated
SessionIds  == 0..MaxEvents

\* Block numbers the chain is observed at: the deployment block, the last block
\* at which a session started there is still within its lifetime, and the first
\* block at which it is past it.
DeployBlock == 1
Blocks == {DeployBlock, DeployBlock + MAX_SESSION_BLOCKS, DeployBlock + MAX_SESSION_BLOCKS + 1}

\* (x, y) arguments of touch.  The coordinates reach nothing but the x and y of
\* the emitted NoteCreated event.
TouchInputs == {<<500, -300>>}

VARIABLES
    owner,          \* address public owner
    nextSessionId,  \* uint256 public nextSessionId
    sessions,       \* mapping(uint256 => Session)
    hasPlayed,      \* mapping(uint256 => mapping(address => bool))
    playerCount,    \* mapping(uint256 => uint16)
    notesInBlock,   \* mapping(uint256 => mapping(uint64 => uint16))
    events,         \* the contract's event log, in emission order
    blockNumber,    \* block.number of the transaction being executed
    lastCall        \* receipt of the last transaction: what was called, how it ended

\* DriftSessionNFT
VARIABLES
    nextTokenId,        \* uint256 private _nextTokenId
    sessionPlayerToken, \* mapping(uint256 => mapping(address => uint256))
    tokenSession,       \* mapping(uint256 => uint256)
    tokenMinter,        \* mapping(uint256 => address)
    tokenOwner,         \* ERC721 _owners: set by _mint
    mintStack           \* mintSession calls waiting in _safeMint for onERC721Received

\* DriftEventListener, and the JavaScript runtime it runs on
VARIABLES
    lastProcessedBlock, \* private lastProcessedBlock: bigint
    pollTimer,          \* private pollTimer: the interval id, 0 for null
    timers,             \* runtime: the intervals set, by id: the sessionId of the closure,
                        \* whether it is live, and the head read when it was set
    starts,             \* startListening calls awaiting their getBlockNumber
    startCount,         \* startListening calls made so far
    ticks,              \* interval callbacks awaiting getBlockNumber or getContractEvents
    delivered,          \* the notes passed to onNote, in order
    lastTick,           \* how the last interval callback to finish ended
    listenerStopped     \* history: stopListening was called after the last startListening

\* DriftEventListener.fetchAllEvents
VARIABLES
    fetchRun,           \* the call in progress: its locals, and the chunks that failed
    returned,           \* the finished calls, in order: the list returned, with the locals
    fetchFailures       \* queries that have failed so far

contractVars == <<owner, nextSessionId, sessions, hasPlayed, playerCount, notesInBlock>>
composerVars == <<owner, nextSessionId, sessions, hasPlayed, playerCount, notesInBlock,
                  events, blockNumber>>
nftVars == <<nextTokenId, sessionPlayerToken, tokenSession, tokenMinter, tokenOwner, mintStack>>
\* The display page (DisplayPage component) and the timeouts it has set
VARIABLES
    started,            \* useState: handleStart has run
    mounted,            \* the component is mounted
    recapState,         \* useState<RecapState>
    recapProgress,      \* useState {current, total}
    recapLoop,          \* recapLoopRef.current
    timeouts,           \* runtime: pending setTimeout calls, in creation order; inRef
                        \* tells whether the id is in recapTimersRef.current
    recapAwaiting,      \* a handleRecap call is awaiting fetchAllEvents
    replayClock,        \* ms since scheduleOnce last ran
    firedNotes,         \* indexes of the notes replayed since scheduleOnce last ran
    recapStopped        \* history: stopRecap was called after the last recap request

pageVars == <<started, mounted, recapState, recapProgress, recapLoop, timeouts, recapAwaiting,
              replayClock, firedNotes, recapStopped>>
backfillVars == <<fetchRun, returned, fetchFailures>>
listenerVars == <<lastProcessedBlock, pollTimer, timers, starts, startCount, ticks, delivered,
                  lastTick, listenerStopped, backfillVars>>
vars == <<owner, nextSessionId, sessions, hasPlayed, playerCount, notesInBlock,
          events, blockNumber, lastCall, nftVars, listenerVars, pageVars>>

\* The value of an unwritten mapping slot of type Session.
ZeroSession ==
    [creator |-> ZeroAddress, startBlock |-> 0, endBlock |-> 0,
     totalNotes |-> 0, uniquePlayers |-> 0, active |-> FALSE]

\* args holds the (x, y) a touch was called with, <<>> for the other calls.
Receipt(op, sessionId, sender, result, ret) ==
    [op |-> op, sessionId |-> sessionId, sender |-> sender, result |-> result, ret |-> ret,
     args |-> <<>>]

\* Token ids, and 0 for "no token".
TokenIds == 1..MaxTokens

\* Addresses that are contracts implementing onERC721Received; the others are
\* externally owned accounts, for which _safeMint makes no call.
Contracts == {"bob"}

\* State after the constructor of DriftSessionNFT.
NFTInit ==
    /\ nextTokenId = 1
    /\ sessionPlayerToken = [s \in SessionIds |-> [a \in Addresses |-> 0]]
    /\ tokenSession = [t \in TokenIds |-> 0]
    /\ tokenMinter = [t \in TokenIds |-> ZeroAddress]
    /\ tokenOwner = [t \in TokenIds |-> ZeroAddress]
    /\ mintStack = <<>>

\* No fetchAllEvents call is in progress.
NoFetch ==
    [phase |-> "idle", sessionId |-> 0, currentBlock |-> 0, startBlock |-> 0, from |-> 0,
     events |-> <<>>, list |-> <<>>, failed |-> {}, sessionRead |-> FALSE, asked |-> <<>>]

\* A DriftEventListener after construction; nothing is scheduled.
ListenerInit ==
    /\ lastProcessedBlock = 0
    /\ pollTimer = 0
    /\ timers = <<>>
    /\ starts = <<>>
    /\ startCount = 0
    /\ ticks = <<>>
    /\ delivered = <<>>
    /\ lastTick = "none"
    /\ listenerStopped = FALSE
    /\ fetchRun = NoFetch
    /\ returned = <<>>
    /\ fetchFailures = 0

\* The display page when it is first rendered.
PageInit ==
    /\ started = FALSE
    /\ mounted = TRUE
    /\ recapState = "idle"
    /\ recapProgress = [current |-> 0, total |-> 0]
    /\ recapLoop = TRUE
    /\ timeouts = <<>>
    /\ recapAwaiting = FALSE
    /\ replayClock = 0
    /\ firedNotes = <<>>
    /\ recapStopped = FALSE

\* State after the constructor has run in block DeployBlock.
Init ==
    /\ NFTInit
    /\ PageInit
    /\ ListenerInit
    /\ owner = Owner
    /\ nextSessionId = 0
    /\ sessions = [s \in SessionIds |-> ZeroSession]
    /\ hasPlayed = [s \in SessionIds |-> [a \in Addresses |-> FALSE]]
    /\ playerCount = [s \in SessionIds |-> 0]
    /\ notesInBlock = [s \in SessionIds |-> [b \in Blocks |-> 0]]
    /\ events = <<>>
    /\ blockNumber = DeployBlock
    /\ lastCall = Receipt("constructor", 0, Owner, "ok", 0)

\* ------------------------------------------------------------ createSession
NewSession_NoStartBlock(sender) ==
    [creator |-> sender, startBlock |-> 0, endBlock |-> 0,
     totalNotes |-> 0, uniquePlayers |-> 0, active |-> TRUE]

NewSession_OwnerCreator(sender) ==
    [creator |-> owner, startBlock |-> blockNumber, endBlock |-> 0,
     totalNotes |-> 0, uniquePlayers |-> 0, active |-> TRUE]

NewSession(sender) ==
    [creator |-> sender, startBlock |-> blockNumber, endBlock |-> 0,
     totalNotes |-> 0, uniquePlayers |-> 0, active |-> TRUE]

\* nextSessionId++ : the id the call allocates.
NewSessionId_Reuse == IF nextSessionId = 0 THEN 1 ELSE nextSessionId

NewSessionId == nextSessionId + 1

createSession(sender) ==
    /\ Len(events) < MaxEvents
    /\ nextSessionId' = NewSessionId
    /\ sessions' = [sessions EXCEPT ![NewSessionId] = NewSession(sender)]
    /\ events' = Append(events,
            [type |-> "SessionStarted", sessionId |-> NewSessionId,
             creator |-> sender, startBlock |-> blockNumber])
    /\ lastCall' = Receipt("createSession", NewSessionId, sender, "ok", NewSessionId)
    /\ UNCHANGED <<owner, hasPlayed, playerCount, notesInBlock, blockNumber>>

\* --------------------------------------------------------------- endSession
endSessionResult_NoActiveCheck(sessionId, sender) ==
    IF ~(sender = sessions[sessionId].creator \/ sender = owner) THEN "Not authorized"
    ELSE "ok"

endSessionResult_NoAuth(sessionId, sender) ==
    IF ~sessions[sessionId].active THEN "Not active"
    ELSE "ok"

\* The require chain of endSession: the revert reason, or "ok".
endSessionResult(sessionId, sender) ==
    IF ~sessions[sessionId].active THEN "Not active"
    ELSE IF ~(sender = sessions[sessionId].creator \/ sender = owner) THEN "Not authorized"
    ELSE "ok"

EndedSession_NoEndBlock(sessionId) ==
    [sessions[sessionId] EXCEPT !.active = FALSE]

EndedSession_ResetsCounters(sessionId) ==
    [sessions[sessionId] EXCEPT !.endBlock = blockNumber, !.active = FALSE,
                                !.totalNotes = 0, !.uniquePlayers = 0]

\* _endSession: the session record it leaves.
EndedSession(sessionId) ==
    [sessions[sessionId] EXCEPT !.endBlock = blockNumber, !.active = FALSE]

SessionEndedEvent(sessionId) ==
    [type |-> "SessionEnded", sessionId |-> sessionId, endBlock |-> blockNumber,
     totalNotes |-> EndedSession(sessionId).totalNotes,
     uniquePlayers |-> EndedSession(sessionId).uniquePlayers]

\* An endSession that ends every session that is active, as one shared flag
\* would.
endSession_EndsAll(sender, sessionId) ==
    LET result == endSessionResult(sessionId, sender) IN
    /\ result = "ok" => Len(events) < MaxEvents
    /\ lastCall' = Receipt("endSession", sessionId, sender, result, 0)
    /\ IF result = "ok"
       THEN /\ sessions' = [o \in SessionIds |->
                               IF sessions[o].active
                               THEN [sessions[o] EXCEPT !.endBlock = blockNumber, !.active = FALSE]
                               ELSE sessions[o]]
            /\ events' = Append(events, SessionEndedEvent(sessionId))
       ELSE UNCHANGED <<sessions, events>>
    /\ UNCHANGED <<owner, nextSessionId, hasPlayed, playerCount, notesInBlock, blockNumber>>

endSession(sender, sessionId) ==
    LET result == endSessionResult(sessionId, sender) IN
    /\ result = "ok" => Len(events) < MaxEvents
    /\ lastCall' = Receipt("endSession", sessionId, sender, result, 0)
    /\ IF result = "ok"
       THEN /\ sessions' = [sessions EXCEPT ![sessionId] = EndedSession(sessionId)]
            /\ events' = Append(events, SessionEndedEvent(sessionId))
       ELSE UNCHANGED <<sessions, events>>
    /\ UNCHANGED <<owner, nextSessionId, hasPlayed, playerCount, notesInBlock, blockNumber>>

\* -------------------------------------------------------------------- touch
clamp_NoUpper(val, minVal, maxVal) ==
    IF val < minVal THEN minVal
    ELSE val

\* _clamp
clamp(val, minVal, maxVal) ==
    IF val < minVal THEN minVal
    ELSE IF val > maxVal THEN maxVal
    ELSE val

Expired_OffByOne(sessionId) ==
    ~(blockNumber < sessions[sessionId].startBlock + MAX_SESSION_BLOCKS)

\* The session is past its lifetime: the negation of touch's second require.
Expired(sessionId) ==
    ~(blockNumber <= sessions[sessionId].startBlock + MAX_SESSION_BLOCKS)

\* A checked uint16 increment of touch would overflow (Panic 0x11).  The uint32
\* increment of totalNotes cannot overflow first within one block: a block's
\* notesInBlock counter is a uint16 and reverts before; across blocks it needs
\* 2^32 accepted touches, beyond any value explored here.
touchOverflows(sessionId, sender) ==
    \/ ~hasPlayed[sessionId][sender] /\ playerCount[sessionId] >= UINT16_MAX
    \/ notesInBlock[sessionId][blockNumber] >= UINT16_MAX

touchResult_NoExpiry(sessionId, sender) ==
    IF ~sessions[sessionId].active THEN "Session not active"
    ELSE IF touchOverflows(sessionId, sender) THEN "Panic"
    ELSE "ok"

touchResult_NoActiveCheck(sessionId, sender) ==
    IF Expired(sessionId) THEN "Session expired"
    ELSE IF touchOverflows(sessionId, sender) THEN "Panic"
    ELSE "ok"

touchResult_ExpiryFirst(sessionId, sender) ==
    IF Expired(sessionId) THEN "Session expired"
    ELSE IF ~sessions[sessionId].active THEN "Session not active"
    ELSE IF touchOverflows(sessionId, sender) THEN "Panic"
    ELSE "ok"

\* The require chain of touch: the revert reason, or "ok".
touchResult(sessionId, sender) ==
    IF ~sessions[sessionId].active THEN "Session not active"
    ELSE IF Expired(sessionId) THEN "Session expired"
    ELSE IF touchOverflows(sessionId, sender) THEN "Panic"
    ELSE "ok"

IsFirstTouch_Always(sessionId, sender) == TRUE

IsFirstTouch_Never(sessionId, sender) == FALSE

\* The condition of the first-touch branch.
IsFirstTouch(sessionId, sender) == ~hasPlayed[sessionId][sender]

\* playerCount[sessionId] after the first-touch branch.
PlayerCountAfter(sessionId, sender) ==
    IF IsFirstTouch(sessionId, sender)
    THEN playerCount[sessionId] + 1
    ELSE playerCount[sessionId]

TouchedSession_NoTotal(sessionId, sender) ==
    [sessions[sessionId] EXCEPT
        !.uniquePlayers = IF IsFirstTouch(sessionId, sender)
                          THEN PlayerCountAfter(sessionId, sender)
                          ELSE @]

\* The session record after an accepted touch.
TouchedSession(sessionId, sender) ==
    [sessions[sessionId] EXCEPT
        !.uniquePlayers = IF IsFirstTouch(sessionId, sender)
                          THEN PlayerCountAfter(sessionId, sender)
                          ELSE @,
        !.totalNotes = @ + 1]

NoteIndexAfter_SessionWide(sessionId) ==
    sessions[sessionId].totalNotes + 1

\* notesInBlock[sessionId][blockNum] after the increment: the emitted noteIndex.
NoteIndexAfter(sessionId) ==
    notesInBlock[sessionId][blockNumber] + 1

\* block.timestamp is carried by the event but read by nothing modelled here;
\* it is left out of the record.
NoteCreatedEvent(sessionId, sender, x, y) ==
    [type |-> "NoteCreated", sessionId |-> sessionId, player |-> sender,
     x |-> clamp(x, COORD_MIN, COORD_MAX), y |-> clamp(y, COORD_MIN, COORD_MAX),
     blockNum |-> blockNumber,
     noteIndex |-> NoteIndexAfter(sessionId),
     totalNotesInSession |-> TouchedSession(sessionId, sender).totalNotes]

touch(sender, sessionId, x, y) ==
    LET result == touchResult(sessionId, sender) IN
    /\ result = "ok" => Len(events) < MaxEvents
    /\ lastCall' = [Receipt("touch", sessionId, sender, result, 0) EXCEPT !.args = <<x, y>>]
    /\ IF result = "ok"
       THEN /\ hasPlayed' = IF IsFirstTouch(sessionId, sender)
                          THEN [hasPlayed EXCEPT ![sessionId][sender] = TRUE]
                          ELSE hasPlayed
            /\ playerCount' = [playerCount EXCEPT ![sessionId] = PlayerCountAfter(sessionId, sender)]
            /\ sessions' = [sessions EXCEPT ![sessionId] = TouchedSession(sessionId, sender)]
            /\ notesInBlock' = [notesInBlock EXCEPT ![sessionId][blockNumber] = NoteIndexAfter(sessionId)]
            /\ events' = Append(events, NoteCreatedEvent(sessionId, sender, x, y))
       ELSE UNCHANGED <<hasPlayed, playerCount, sessions, notesInBlock, events>>
    /\ UNCHANGED <<owner, nextSessionId, blockNumber>>

\* ------------------------------------------------------------------- views
getSession(sessionId) == sessions[sessionId]

\* A view that reads the flag and forgets the lifetime.
isSessionActive_FlagOnly(sessionId) == sessions[sessionId].active

isSessionActive(sessionId) ==
    sessions[sessionId].active /\ blockNumber <= sessions[sessionId].startBlock + MAX_SESSION_BLOCKS

getBlockNoteCount(sessionId, blockNum) == notesInBlock[sessionId][blockNum]

\* -------------------------------------------------------------- the chain
\* The next transaction lands in a later block.
MineBlock ==
    /\ \E b \in Blocks : b > blockNumber /\ blockNumber' = b
    /\ UNCHANGED <<owner, nextSessionId, sessions, hasPlayed, playerCount, notesInBlock,
                   events, lastCall>>

\* Ids a call names: every allocated id, and id 0, which is never allocated
\* and stands for every unknown id (a call cannot tell them apart).
CallableIds == 0..nextSessionId

Next ==
    \/ \E a \in Addresses : createSession(a) /\ UNCHANGED <<nftVars, listenerVars, pageVars>>
    \/ \E a \in Addresses, s \in CallableIds : endSession(a, s) /\ UNCHANGED <<nftVars, listenerVars, pageVars>>
    \/ \E a \in Addresses, s \in CallableIds, in \in TouchInputs :
            touch(a, s, in[1], in[2]) /\ UNCHANGED <<nftVars, listenerVars, pageVars>>
    \/ MineBlock /\ UNCHANGED <<nftVars, listenerVars, pageVars>>

Spec == Init /\ [][Next]_vars

\* ------------------------------------------------- touch over the int16 range
\* Coordinates from the whole int16 range: both ends, both sides of each clamp
\* boundary, and the middle.
Int16Samples == {-32768, -1001, -1000, 0, 1000, 1001, 32767}

\* One session, and touches on it with every pair of sampled coordinates.
NextClamp ==
    \/ \E a \in Addresses : nextSessionId = 0 /\ createSession(a) /\ UNCHANGED <<nftVars, listenerVars, pageVars>>
    \/ \E a \in Addresses, s \in 1..nextSessionId, x \in Int16Samples, y \in Int16Samples :
            Len(events) <= MaxClampNotes /\ touch(a, s, x, y) /\ UNCHANGED <<nftVars, listenerVars, pageVars>>

SpecClamp == Init /\ [][NextClamp]_vars


\* ========================================================== DriftSessionNFT
\* The require chain of mintSession: the revert reason, or "ok".
mintResult_NoEndedCheck(sessionId, sender) ==
    IF ~hasPlayed[sessionId][sender] THEN "Not a participant"
    ELSE IF ~(getSession(sessionId).startBlock > 0) THEN "Session does not exist"
    ELSE IF ~(sessionPlayerToken[sessionId][sender] = 0) THEN "Already minted"
    ELSE "ok"

mintResult(sessionId, sender) ==
    IF ~hasPlayed[sessionId][sender] THEN "Not a participant"
    ELSE IF getSession(sessionId).active THEN "Session still active"
    ELSE IF ~(getSession(sessionId).startBlock > 0) THEN "Session does not exist"
    ELSE IF ~(sessionPlayerToken[sessionId][sender] = 0) THEN "Already minted"
    ELSE "ok"

canMint(sessionId, player) ==
    IF ~hasPlayed[sessionId][player] THEN FALSE
    ELSE IF getSession(sessionId).active \/ getSession(sessionId).startBlock = 0 THEN FALSE
    ELSE IF sessionPlayerToken[sessionId][player] # 0 THEN FALSE
    ELSE TRUE

hasMinted(sessionId, player) == sessionPlayerToken[sessionId][player] # 0

\* The storage of DriftSessionNFT, as a revert restores it.
NFTStorage ==
    [nextTokenId |-> nextTokenId, sessionPlayerToken |-> sessionPlayerToken,
     tokenSession |-> tokenSession, tokenMinter |-> tokenMinter, tokenOwner |-> tokenOwner]

\* A mintSession call that has run up to the receiver call of _safeMint.
MintFrame(sender, sessionId, tokenId) ==
    [sender |-> sender, sessionId |-> sessionId, tokenId |-> tokenId, saved |-> NFTStorage]

\* Who may call mintSession now: anyone when no mint is in progress; while one is
\* waiting in onERC721Received, the receiver contracts.
MintCallers == IF mintStack = <<>> THEN Addresses ELSE Contracts

\* mintSession up to and including _safeMint's _mint.  For an externally owned
\* caller _safeMint returns at once and the call runs to its end; for a contract
\* caller it waits for onERC721Received.  A call whose require fails reverts; made
\* from inside a receiver it changes nothing there either.
mintSession(sender, sessionId) ==
    LET result == mintResult(sessionId, sender)
        tokenId == nextTokenId
    IN
    /\ sender \in MintCallers
    /\ result = "ok" => tokenId \in TokenIds
    /\ IF result # "ok"
       THEN /\ lastCall' = Receipt("mintSession", sessionId, sender, result, 0)
            /\ UNCHANGED nftVars
       ELSE /\ nextTokenId' = tokenId + 1
            /\ tokenOwner' = [tokenOwner EXCEPT ![tokenId] = sender]
            /\ IF sender \in Contracts
               THEN /\ mintStack' = Append(mintStack, MintFrame(sender, sessionId, tokenId))
                    /\ lastCall' = Receipt("mintSession", sessionId, sender, "in receiver", tokenId)
                    /\ UNCHANGED <<sessionPlayerToken, tokenSession, tokenMinter>>
               ELSE /\ sessionPlayerToken' = [sessionPlayerToken EXCEPT ![sessionId][sender] = tokenId]
                    /\ tokenSession' = [tokenSession EXCEPT ![tokenId] = sessionId]
                    /\ tokenMinter' = [tokenMinter EXCEPT ![tokenId] = sender]
                    /\ lastCall' = Receipt("mintSession", sessionId, sender, "ok", tokenId)
                    /\ UNCHANGED mintStack
    /\ UNCHANGED <<composerVars, listenerVars, pageVars>>

\* onERC721Received of the innermost waiting call returns the ERC721 selector:
\* that mintSession writes its three mappings and returns its token id.
mintReceiverAccepts ==
    /\ mintStack # <<>>
    /\ LET f == mintStack[Len(mintStack)] IN
        /\ sessionPlayerToken' = [sessionPlayerToken EXCEPT ![f.sessionId][f.sender] = f.tokenId]
        /\ tokenSession' = [tokenSession EXCEPT ![f.tokenId] = f.sessionId]
        /\ tokenMinter' = [tokenMinter EXCEPT ![f.tokenId] = f.sender]
        /\ lastCall' = Receipt("mintSession", f.sessionId, f.sender, "ok", f.tokenId)
    /\ mintStack' = SubSeq(mintStack, 1, Len(mintStack) - 1)
    /\ UNCHANGED <<nextTokenId, tokenOwner>>
    /\ UNCHANGED <<composerVars, listenerVars, pageVars>>

\* onERC721Received of the innermost waiting call reverts or returns another
\* value: that mintSession reverts, and with it everything done since it began.
mintReceiverRejects ==
    /\ mintStack # <<>>
    /\ LET f == mintStack[Len(mintStack)] IN
        /\ nextTokenId' = f.saved.nextTokenId
        /\ sessionPlayerToken' = f.saved.sessionPlayerToken
        /\ tokenSession' = f.saved.tokenSession
        /\ tokenMinter' = f.saved.tokenMinter
        /\ tokenOwner' = f.saved.tokenOwner
        /\ lastCall' = Receipt("mintSession", f.sessionId, f.sender, "Receiver rejected", 0)
    /\ mintStack' = SubSeq(mintStack, 1, Len(mintStack) - 1)
    /\ UNCHANGED <<composerVars, listenerVars, pageVars>>

\* The composer's transactions that are accepted (a reverted one changes nothing
\* the NFT contract reads), between mint transactions; and the mint calls.
NextNFT ==
    \/ \E a \in Addresses : mintStack = <<>> /\ createSession(a) /\ UNCHANGED <<nftVars, listenerVars, pageVars>>
    \/ \E a \in Addresses, s \in CallableIds :
            /\ mintStack = <<>> /\ endSessionResult(s, a) = "ok"
            /\ endSession(a, s) /\ UNCHANGED <<nftVars, listenerVars, pageVars>>
    \/ \E a \in Addresses, s \in CallableIds, in \in TouchInputs :
            /\ mintStack = <<>> /\ touchResult(s, a) = "ok"
            /\ touch(a, s, in[1], in[2]) /\ UNCHANGED <<nftVars, listenerVars, pageVars>>
    \/ \E a \in Addresses, s \in CallableIds : mintSession(a, s)
    \/ mintReceiverAccepts
    \/ mintReceiverRejects

SpecNFT == Init /\ [][NextNFT]_vars

\* ======================================================= DriftEventListener
\* getBlockNumber: the latest block the chain has sealed.  Transactions run in
\* block blockNumber, which is sealed when the chain moves on.
getBlockNumber == blockNumber - 1

\* getContractEvents for NoteCreated: the logs of the blocks fromBlock..toBlock.
getContractEvents(fromBlock, toBlock) ==
    SelectSeq(events, LAMBDA e : /\ e.type = "NoteCreated"
                                 /\ fromBlock <= e.blockNum /\ e.blockNum <= toBlock)

toNoteEvent(args) ==
    [sessionId |-> args.sessionId, player |-> args.player, x |-> args.x, y |-> args.y,
     blockNum |-> args.blockNum, noteIndex |-> args.noteIndex,
     totalNotes |-> args.totalNotesInSession]

RECURSIVE MapNotes(_)
MapNotes(logs) ==
    IF logs = <<>> THEN <<>> ELSE <<toNoteEvent(Head(logs))>> \o MapNotes(Tail(logs))

\* What the loop of a tick passes to onNote, in order, for the logs it got.
NotesFor(logs, sessionId) ==
    MapNotes(SelectSeq(logs, LAMBDA l : l.sessionId # 0 /\ l.sessionId = sessionId))

\* A sequence without its i-th element.
Without(seq, i) == SubSeq(seq, 1, i - 1) \o SubSeq(seq, i + 1, Len(seq))

\* The sessions the caller listens to.
ListenSessions == {1}

\* startListening up to its first await.
startListening(sessionId) ==
    /\ startCount < MaxStarts
    /\ startCount' = startCount + 1
    /\ starts' = Append(starts, sessionId)
    /\ listenerStopped' = FALSE
    /\ UNCHANGED <<lastProcessedBlock, pollTimer, timers, ticks, delivered, lastTick>>

\* The head arrives: startListening stores it and sets the interval, whose id
\* replaces the one in pollTimer.
startResumes(i) ==
    /\ i \in 1..Len(starts)
    /\ lastProcessedBlock' = getBlockNumber
    /\ LET id == Len(timers) + 1 IN
        /\ timers' = Append(timers, [sessionId |-> starts[i], live |-> TRUE,
                                     startHead |-> getBlockNumber])
        /\ pollTimer' = id
    /\ starts' = Without(starts, i)
    /\ UNCHANGED <<startCount, ticks, delivered, lastTick, listenerStopped>>

\* The head query fails: startListening rejects before it sets anything.
startFails(i) ==
    /\ i \in 1..Len(starts)
    /\ starts' = Without(starts, i)
    /\ UNCHANGED <<lastProcessedBlock, pollTimer, timers, startCount, ticks, delivered,
                   lastTick, listenerStopped>>

stopListening ==
    /\ IF pollTimer # 0
       THEN /\ timers' = [timers EXCEPT ![pollTimer].live = FALSE]
            /\ pollTimer' = 0
       ELSE UNCHANGED <<timers, pollTimer>>
    /\ listenerStopped' = TRUE
    /\ UNCHANGED <<lastProcessedBlock, starts, startCount, ticks, delivered, lastTick>>

\* The runtime fires a live interval: its callback runs up to the head query.
tickFires(t) ==
    /\ t \in 1..Len(timers)
    /\ timers[t].live
    /\ Len(ticks) < MaxTicks
    /\ ticks' = Append(ticks, [sessionId |-> timers[t].sessionId, phase |-> "head",
                               fromBlock |-> 0, currentBlock |-> 0])
    /\ UNCHANGED <<lastProcessedBlock, pollTimer, timers, starts, startCount, delivered,
                   lastTick, listenerStopped>>

\* The head arrives at a tick: it returns if there is nothing new, else it asks
\* for the logs after lastProcessedBlock.
tickHead(i) ==
    /\ i \in 1..Len(ticks)
    /\ ticks[i].phase = "head"
    /\ LET currentBlock == getBlockNumber IN
        IF currentBlock <= lastProcessedBlock
        THEN /\ ticks' = Without(ticks, i)
             /\ lastTick' = "idle"
        ELSE /\ ticks' = [ticks EXCEPT ![i].phase = "logs",
                                       ![i].fromBlock = lastProcessedBlock + 1,
                                       ![i].currentBlock = currentBlock]
             /\ UNCHANGED lastTick
    /\ UNCHANGED <<lastProcessedBlock, pollTimer, timers, starts, startCount, delivered,
                   listenerStopped>>

\* The logs arrive at a tick: it passes the notes of its session to onNote and
\* stores the head it had read.
tickLogs(i) ==
    /\ i \in 1..Len(ticks)
    /\ ticks[i].phase = "logs"
    /\ LET logs == getContractEvents(ticks[i].fromBlock, ticks[i].currentBlock)
           notes == NotesFor(logs, ticks[i].sessionId)
       IN /\ Len(delivered) + Len(notes) <= MaxDelivered
          /\ delivered' = delivered \o notes
    /\ lastProcessedBlock' = ticks[i].currentBlock
    /\ ticks' = Without(ticks, i)
    /\ lastTick' = "processed"
    /\ UNCHANGED <<pollTimer, timers, starts, startCount, listenerStopped>>

\* A query of a tick fails: the catch logs the error and the tick ends.
tickFails_AdvancesMark(i) ==
    /\ i \in 1..Len(ticks)
    /\ ticks' = Without(ticks, i)
    /\ lastTick' = "error"
    /\ lastProcessedBlock' = getBlockNumber
    /\ UNCHANGED <<pollTimer, timers, starts, startCount, delivered, listenerStopped>>

tickFails(i) ==
    /\ i \in 1..Len(ticks)
    /\ ticks' = Without(ticks, i)
    /\ lastTick' = "error"
    /\ UNCHANGED <<lastProcessedBlock, pollTimer, timers, starts, startCount, delivered,
                   listenerStopped>>

\* The listener beside a chain on which the owner creates sessions and one
\* player touches them.
NextListener ==
    \/ createSession(Owner) /\ UNCHANGED <<nftVars, listenerVars, pageVars>>
    \/ \E s \in 1..nextSessionId, in \in TouchInputs :
            /\ touchResult(s, "alice") = "ok"
            /\ touch("alice", s, in[1], in[2]) /\ UNCHANGED <<nftVars, listenerVars, pageVars>>
    \/ MineBlock /\ UNCHANGED <<nftVars, listenerVars, pageVars>>
    \/ \E s \in ListenSessions : startListening(s) /\ UNCHANGED <<composerVars, lastCall, nftVars, backfillVars, pageVars>>
    \/ \E i \in 1..MaxStarts : startResumes(i) /\ UNCHANGED <<composerVars, lastCall, nftVars, backfillVars, pageVars>>
    \/ \E i \in 1..MaxStarts : startFails(i) /\ UNCHANGED <<composerVars, lastCall, nftVars, backfillVars, pageVars>>
    \/ stopListening /\ UNCHANGED <<composerVars, lastCall, nftVars, backfillVars, pageVars>>
    \/ \E t \in 1..MaxStarts : tickFires(t) /\ UNCHANGED <<composerVars, lastCall, nftVars, backfillVars, pageVars>>
    \/ \E i \in 1..MaxTicks : tickHead(i) /\ UNCHANGED <<composerVars, lastCall, nftVars, backfillVars, pageVars>>
    \/ \E i \in 1..MaxTicks : tickLogs(i) /\ UNCHANGED <<composerVars, lastCall, nftVars, backfillVars, pageVars>>
    \/ \E i \in 1..MaxTicks : tickFails(i) /\ UNCHANGED <<composerVars, lastCall, nftVars, backfillVars, pageVars>>

SpecListener == Init /\ [][NextListener]_vars

\* One run of live-tail: startListening is called once on the listener.
NextTail ==
    \/ createSession(Owner) /\ UNCHANGED <<nftVars, listenerVars, pageVars>>
    \/ \E s \in 1..nextSessionId, in \in TouchInputs :
            /\ touchResult(s, "alice") = "ok"
            /\ touch("alice", s, in[1], in[2]) /\ UNCHANGED <<nftVars, listenerVars, pageVars>>
    \/ MineBlock /\ UNCHANGED <<nftVars, listenerVars, pageVars>>
    \/ \E s \in ListenSessions :
            /\ startCount = 0
            /\ startListening(s) /\ UNCHANGED <<composerVars, lastCall, nftVars, backfillVars, pageVars>>
    \/ startResumes(1) /\ UNCHANGED <<composerVars, lastCall, nftVars, backfillVars, pageVars>>
    \/ stopListening /\ UNCHANGED <<composerVars, lastCall, nftVars, backfillVars, pageVars>>
    \/ tickFires(1) /\ UNCHANGED <<composerVars, lastCall, nftVars, backfillVars, pageVars>>
    \/ \E i \in 1..MaxTicks : tickHead(i) /\ UNCHANGED <<composerVars, lastCall, nftVars, backfillVars, pageVars>>
    \/ \E i \in 1..MaxTicks : tickLogs(i) /\ UNCHANGED <<composerVars, lastCall, nftVars, backfillVars, pageVars>>
    \/ \E i \in 1..MaxTicks : tickFails(i) /\ UNCHANGED <<composerVars, lastCall, nftVars, backfillVars, pageVars>>

SpecTail == Init /\ [][NextTail]_vars

\* ==================================================== fetchAllEvents (backfill)
\* The orders in which a provider may return a list of logs.
Orders(logs) ==
    LET n == Len(logs)
        bij == {f \in [1..n -> 1..n] : \A i, j \in 1..n : f[i] = f[j] => i = j}
    IN {[i \in 1..n |-> logs[f[i]]] : f \in bij}

\* The comparator of events.sort: negative, zero or positive.
compareNotes_BlockOnly(a, b) == a.blockNum - b.blockNum

compareNotes(a, b) ==
    IF a.blockNum # b.blockNum THEN a.blockNum - b.blockNum ELSE a.noteIndex - b.noteIndex

RECURSIVE insertNote(_, _)
insertNote(note, sorted) ==
    IF sorted = <<>> THEN <<note>>
    ELSE IF compareNotes(note, Head(sorted)) < 0 THEN <<note>> \o sorted
    ELSE <<Head(sorted)>> \o insertNote(note, Tail(sorted))

\* Array.prototype.sort with compareNotes: stable, ascending.
RECURSIVE sortNotes(_)
sortNotes(notes) ==
    IF notes = <<>> THEN <<>>
    ELSE insertNote(notes[Len(notes)], sortNotes(SubSeq(notes, 1, Len(notes) - 1)))

\* A fallback that goes back 50,000 blocks even before block 0.
fallbackStart_NoFloor(currentBlock) == currentBlock - FALLBACK_BLOCKS

\* The start of the scan when the session gave none.
fallbackStart(currentBlock) ==
    IF currentBlock > FALLBACK_BLOCKS THEN currentBlock - FALLBACK_BLOCKS ELSE 0

\* A chunk one block too long: its last block is asked for again.
chunkEnd_Overlapping(from, currentBlock) ==
    IF from + CHUNK_SIZE > currentBlock THEN currentBlock ELSE from + CHUNK_SIZE

\* The last block of the chunk that starts at from.
chunkEnd(from, currentBlock) ==
    IF from + CHUNK_SIZE - 1 > currentBlock THEN currentBlock ELSE from + CHUNK_SIZE - 1

\* The call returns: the outcome kept for the caller, and the locals that
\* explain it.
FetchReturns_Unsorted(run) ==
    /\ returned' = Append(returned, [run EXCEPT !.phase = "returned", !.list = run.events])
    /\ fetchRun' = NoFetch

FetchReturns(run) ==
    /\ returned' = Append(returned, [run EXCEPT !.phase = "returned",
                                                !.list = sortNotes(run.events)])
    /\ fetchRun' = NoFetch

\* The scan from startBlock: the while loop is entered, or, when startBlock is
\* beyond the head, the (empty) list is sorted and returned.
FetchScan(run, startBlock) ==
    LET r == [run EXCEPT !.startBlock = startBlock, !.from = startBlock, !.phase = "chunks"] IN
    IF startBlock <= run.currentBlock
    THEN fetchRun' = r /\ UNCHANGED returned
    ELSE FetchReturns(r)

\* After a chunk, fetched or failed: the next chunk, or sort and return.
FetchAdvance(run) ==
    LET to == chunkEnd(run.from, run.currentBlock)
        r == [run EXCEPT !.from = to + 1]
    IN IF to + 1 <= run.currentBlock
       THEN fetchRun' = r /\ UNCHANGED returned
       ELSE FetchReturns(r)

\* fetchAllEvents up to its first await.  The caller makes two calls, one after
\* the other.
fetchAllEvents(sessionId) ==
    /\ fetchRun.phase = "idle"
    /\ Len(returned) < 2
    /\ fetchRun' = [NoFetch EXCEPT !.phase = "head", !.sessionId = sessionId]
    /\ UNCHANGED <<returned, fetchFailures>>

fetchHead ==
    /\ fetchRun.phase = "head"
    /\ fetchRun' = [fetchRun EXCEPT !.phase = "session", !.currentBlock = getBlockNumber]
    /\ UNCHANGED <<returned, fetchFailures>>

\* The head query fails: the outer catch logs it and the empty list is returned.
fetchHeadFails_Throws ==
    /\ fetchRun.phase = "head"
    /\ fetchFailures < MaxFetchFailures
    /\ fetchFailures' = fetchFailures + 1
    /\ returned' = Append(returned, [fetchRun EXCEPT !.phase = "rejected"])
    /\ fetchRun' = NoFetch

fetchHeadFails ==
    /\ fetchRun.phase = "head"
    /\ fetchFailures < MaxFetchFailures
    /\ fetchFailures' = fetchFailures + 1
    /\ returned' = Append(returned, [fetchRun EXCEPT !.phase = "head failed"])
    /\ fetchRun' = NoFetch

\* readContract answers from the storage of the newest sealed block: a session
\* created in the block under construction is not in it yet.
sessionAtHead(sessionId) ==
    IF getSession(sessionId).startBlock <= getBlockNumber THEN getSession(sessionId)
    ELSE ZeroSession

\* getSession answers: its startBlock if it has one, else the fallback.
fetchSession ==
    /\ fetchRun.phase = "session"
    /\ LET startBlock == sessionAtHead(fetchRun.sessionId).startBlock
           run == [fetchRun EXCEPT !.sessionRead = TRUE]
       IN FetchScan(run, IF startBlock # 0 THEN startBlock ELSE fallbackStart(run.currentBlock))
    /\ UNCHANGED fetchFailures

\* getSession fails: the inner catch warns and the fallback is used.
fetchSessionFails ==
    /\ fetchRun.phase = "session"
    /\ fetchFailures < MaxFetchFailures
    /\ fetchFailures' = fetchFailures + 1
    /\ FetchScan(fetchRun, fallbackStart(fetchRun.currentBlock))

\* The range of the query of the chunk the walk is at.
AskedRange(run) == <<run.from, chunkEnd(run.from, run.currentBlock)>>

\* A chunk's logs arrive, in some order: the notes of the session are pushed.
fetchChunk ==
    /\ fetchRun.phase = "chunks"
    /\ \E logs \in Orders(getContractEvents(fetchRun.from,
                                             chunkEnd(fetchRun.from, fetchRun.currentBlock))) :
        FetchAdvance([fetchRun EXCEPT
                        !.events = fetchRun.events \o NotesFor(logs, fetchRun.sessionId),
                        !.asked = Append(fetchRun.asked, AskedRange(fetchRun))])
    /\ UNCHANGED fetchFailures

\* A chunk's query fails: the catch warns and the loop goes on.
fetchChunkFails_Aborts ==
    /\ fetchRun.phase = "chunks"
    /\ fetchFailures < MaxFetchFailures
    /\ fetchFailures' = fetchFailures + 1
    /\ FetchReturns([fetchRun EXCEPT !.failed = fetchRun.failed \cup {fetchRun.from},
                                     !.asked = Append(fetchRun.asked, AskedRange(fetchRun))])

fetchChunkFails ==
    /\ fetchRun.phase = "chunks"
    /\ fetchFailures < MaxFetchFailures
    /\ fetchFailures' = fetchFailures + 1
    /\ FetchAdvance([fetchRun EXCEPT !.failed = fetchRun.failed \cup {fetchRun.from},
                                     !.asked = Append(fetchRun.asked, AskedRange(fetchRun))])

\* Whether the listener's other parts are left alone.
TailUnchanged ==
    UNCHANGED <<lastProcessedBlock, pollTimer, timers, starts, startCount, ticks, delivered,
                lastTick, listenerStopped>>

\* Backfill of a log that no longer changes: the chain is written first, then
\* fetchAllEvents is called.
NoFetchYet == fetchRun.phase = "idle" /\ returned = <<>>

NextBackfill ==
    \/ NoFetchYet /\ createSession(Owner) /\ UNCHANGED <<nftVars, listenerVars, pageVars>>
    \/ \E s \in 1..nextSessionId, in \in TouchInputs :
            /\ NoFetchYet /\ touchResult(s, "alice") = "ok"
            /\ touch("alice", s, in[1], in[2]) /\ UNCHANGED <<nftVars, listenerVars, pageVars>>
    \/ NoFetchYet /\ MineBlock /\ UNCHANGED <<nftVars, listenerVars, pageVars>>
    \/ \E s \in ListenSessions :
            fetchAllEvents(s) /\ TailUnchanged /\ UNCHANGED <<composerVars, lastCall, nftVars, pageVars>>
    \/ fetchHead /\ TailUnchanged /\ UNCHANGED <<composerVars, lastCall, nftVars, pageVars>>
    \/ fetchHeadFails /\ TailUnchanged /\ UNCHANGED <<composerVars, lastCall, nftVars, pageVars>>
    \/ fetchSession /\ TailUnchanged /\ UNCHANGED <<composerVars, lastCall, nftVars, pageVars>>
    \/ fetchSessionFails /\ TailUnchanged /\ UNCHANGED <<composerVars, lastCall, nftVars, pageVars>>
    \/ fetchChunk /\ TailUnchanged /\ UNCHANGED <<composerVars, lastCall, nftVars, pageVars>>
    \/ fetchChunkFails /\ TailUnchanged /\ UNCHANGED <<composerVars, lastCall, nftVars, pageVars>>

SpecBackfill == Init /\ [][NextBackfill]_vars

\* The walk over a chain that keeps growing until the walk has its start: the
\* session is created at one of the blocks below, and blocks are sealed while
\* fetchAllEvents awaits the head and the session.
WalkBlocks == {5000, 5001, 5002, 10001, 50001, 50002, 60000}

MineWalk ==
    /\ \E b \in WalkBlocks : b > blockNumber /\ blockNumber' = b
    /\ UNCHANGED <<owner, nextSessionId, sessions, hasPlayed, playerCount, notesInBlock,
                   events, lastCall>>

WalkOpen == returned = <<>> /\ fetchRun.phase \in {"idle", "head", "session"}

NextWalk ==
    \/ /\ WalkOpen /\ nextSessionId = 0
       /\ createSession(Owner) /\ UNCHANGED <<nftVars, listenerVars, pageVars>>
    \/ WalkOpen /\ MineWalk /\ UNCHANGED <<nftVars, listenerVars, pageVars>>
    \/ \E s \in ListenSessions :
            /\ returned = <<>>
            /\ fetchAllEvents(s) /\ TailUnchanged
            /\ UNCHANGED <<composerVars, lastCall, nftVars, pageVars>>
    \/ fetchHead /\ TailUnchanged /\ UNCHANGED <<composerVars, lastCall, nftVars, pageVars>>
    \/ fetchHeadFails /\ TailUnchanged /\ UNCHANGED <<composerVars, lastCall, nftVars, pageVars>>
    \/ fetchSession /\ TailUnchanged /\ UNCHANGED <<composerVars, lastCall, nftVars, pageVars>>
    \/ fetchSessionFails /\ TailUnchanged /\ UNCHANGED <<composerVars, lastCall, nftVars, pageVars>>
    \/ fetchChunk /\ TailUnchanged /\ UNCHANGED <<composerVars, lastCall, nftVars, pageVars>>
    \/ fetchChunkFails /\ TailUnchanged /\ UNCHANGED <<composerVars, lastCall, nftVars, pageVars>>

SpecWalk == Init /\ [][NextWalk]_vars

\* ============================================================= display page
\* The session of the page's URL.
PageSession == 1

\* How many of the events just before the i-th share its block.
RECURSIVE intraIndex(_, _)
intraIndex(evs, i) ==
    IF i > 1 /\ evs[i - 1].blockNum = evs[i].blockNum THEN 1 + intraIndex(evs, i - 1) ELSE 0

\* Offsets that count the blocks only.
timings_NoIntra(evs) ==
    [i \in 1..Len(evs) |-> (evs[i].blockNum - evs[1].blockNum) * BLOCK_GAP_MS]

\* The offset of each event from the start of an iteration of the replay.
timings(evs) ==
    [i \in 1..Len(evs) |->
        (evs[i].blockNum - evs[1].blockNum) * BLOCK_GAP_MS + intraIndex(evs, i) * INTRA_BLOCK_GAP_MS]

RECURSIVE maxTiming(_, _)
maxTiming(ts, n) ==
    IF n = 0 THEN 0
    ELSE IF ts[n] > maxTiming(ts, n - 1) THEN ts[n] ELSE maxTiming(ts, n - 1)

totalDuration(evs) == maxTiming(timings(evs), Len(evs))

loopDuration_NoPause(evs) == totalDuration(evs)

loopDuration(evs) == totalDuration(evs) + LOOP_PAUSE_MS

\* The events a replay plays: the list the last fetchAllEvents returned.
recapEvents == IF returned = <<>> THEN <<>> ELSE returned[Len(returned)].list

\* The timeouts of the replay that are pending.
ReplayTimeouts == SelectSeq(timeouts, LAMBDA t : t.kind \in {"note", "loop"})

\* clearTimeout for every id in recapTimersRef.current.
ClearedTimeouts == SelectSeq(timeouts, LAMBDA t : ~t.inRef)

\* recapTimersRef.current = []: the pending timeouts are no longer referred to.
Forgotten(ts) == [k \in 1..Len(ts) |-> [ts[k] EXCEPT !.inRef = FALSE]]

\* scheduleOnce: one timeout per event, then the timeout of the restart.
scheduleOnce(evs) ==
    [i \in 1..Len(evs) |-> [kind |-> "note", i |-> i, due |-> timings(evs)[i], inRef |-> TRUE]]
        \o <<[kind |-> "loop", i |-> 0, due |-> loopDuration(evs), inRef |-> TRUE]>>

\* A React state update: it has no effect on a component that is unmounted.
SetState(old, new) == IF mounted THEN new ELSE old

\* stopRecap, but for recapStopped.
StopRecap ==
    /\ recapLoop' = FALSE
    /\ timeouts' = ClearedTimeouts
    /\ recapState' = SetState(recapState, "idle")
    /\ recapProgress' = SetState(recapProgress, [current |-> 0, total |-> 0])

\* The timeout at position k is the next of the replay to fire: none pending is
\* due earlier, and none due at the same time was set before it.
NextDue(k) ==
    /\ k \in 1..Len(timeouts)
    /\ timeouts[k].kind \in {"note", "loop"}
    /\ \A j \in 1..Len(timeouts) :
        timeouts[j].kind \in {"note", "loop"} =>
            \/ timeouts[j].due > timeouts[k].due
            \/ timeouts[j].due = timeouts[k].due /\ j >= k

\* handleStart: the engines are created and live listening starts.
handleStart ==
    /\ mounted /\ ~started
    /\ started' = TRUE
    /\ startListening(PageSession)
    /\ UNCHANGED <<mounted, recapState, recapProgress, recapLoop, timeouts, recapAwaiting,
                   replayClock, firedNotes, recapStopped>>
    /\ UNCHANGED backfillVars

\* handleRecap while a replay plays: stopRecap, then live listening resumes.
handleRecapStop ==
    /\ mounted /\ started /\ recapState = "playing"
    /\ StopRecap
    /\ recapStopped' = TRUE
    /\ startListening(PageSession)
    /\ UNCHANGED <<started, mounted, recapAwaiting, replayClock, firedNotes>>
    /\ UNCHANGED backfillVars

\* handleRecap otherwise, up to its await: the listener is stopped and the
\* events are fetched.  The button is disabled while loading and while empty.
handleRecapStart ==
    /\ mounted /\ started /\ recapState = "idle"
    /\ recapState' = "loading"
    /\ stopListening
    /\ fetchAllEvents(PageSession)
    /\ recapAwaiting' = TRUE
    /\ recapStopped' = FALSE
    /\ UNCHANGED <<started, mounted, recapProgress, recapLoop, timeouts, replayClock, firedNotes>>

\* handleRecap that does nothing for an empty sequence but return to "idle".
recapResumes_SilentEmpty ==
    /\ recapAwaiting /\ fetchRun.phase = "idle"
    /\ recapAwaiting' = FALSE
    /\ IF recapEvents = <<>>
       THEN /\ recapState' = SetState(recapState, "idle")
            /\ UNCHANGED <<timeouts, recapLoop, recapProgress, replayClock, firedNotes>>
       ELSE /\ recapLoop' = TRUE
            /\ recapState' = SetState(recapState, "playing")
            /\ recapProgress' = SetState(recapProgress,
                                         [current |-> 0, total |-> Len(recapEvents)])
            /\ timeouts' = ClearedTimeouts \o scheduleOnce(recapEvents)
            /\ replayClock' = 0
            /\ firedNotes' = <<>>
    /\ UNCHANGED <<started, mounted, recapStopped>>
    /\ TailUnchanged /\ UNCHANGED backfillVars

\* fetchAllEvents has returned to handleRecap: with no events the page says so
\* for a while; otherwise the replay is scheduled.
recapResumes ==
    /\ recapAwaiting /\ fetchRun.phase = "idle"
    /\ recapAwaiting' = FALSE
    /\ IF recapEvents = <<>>
       THEN /\ recapState' = SetState(recapState, "empty")
            /\ timeouts' = Append(timeouts, [kind |-> "empty", i |-> 0, due |-> 0, inRef |-> FALSE])
            /\ UNCHANGED <<recapLoop, recapProgress, replayClock, firedNotes>>
       ELSE /\ recapLoop' = TRUE
            /\ recapState' = SetState(recapState, "playing")
            /\ recapProgress' = SetState(recapProgress,
                                         [current |-> 0, total |-> Len(recapEvents)])
            /\ timeouts' = ClearedTimeouts \o scheduleOnce(recapEvents)
            /\ replayClock' = 0
            /\ firedNotes' = <<>>
    /\ UNCHANGED <<started, mounted, recapStopped>>
    /\ TailUnchanged /\ UNCHANGED backfillVars

\* The "no notes" notice ends: live listening resumes.
emptyNoticeEnds(k) ==
    /\ k \in 1..Len(timeouts) /\ timeouts[k].kind = "empty"
    /\ timeouts' = Without(timeouts, k)
    /\ recapState' = SetState(recapState, "idle")
    /\ startListening(PageSession)
    /\ UNCHANGED <<started, mounted, recapProgress, recapLoop, recapAwaiting, replayClock,
                   firedNotes, recapStopped>>
    /\ UNCHANGED backfillVars

\* The timeout of a note fires: the note is played and the progress is shown.
replayNoteFires(k) ==
    /\ NextDue(k) /\ timeouts[k].kind = "note"
    /\ timeouts' = Without(timeouts, k)
    /\ replayClock' = timeouts[k].due
    /\ firedNotes' = Append(firedNotes, timeouts[k].i)
    /\ recapProgress' = SetState(recapProgress,
                                 [current |-> timeouts[k].i, total |-> Len(recapEvents)])
    /\ UNCHANGED <<started, mounted, recapState, recapLoop, recapAwaiting, recapStopped>>
    /\ TailUnchanged /\ UNCHANGED backfillVars

\* The timeout of the restart fires: if the replay still loops, the timers are
\* forgotten and scheduleOnce runs again.
replayLoopFires(k) ==
    /\ NextDue(k) /\ timeouts[k].kind = "loop"
    /\ IF recapLoop
       THEN /\ timeouts' = Forgotten(Without(timeouts, k)) \o scheduleOnce(recapEvents)
            /\ replayClock' = 0
            /\ firedNotes' = <<>>
       ELSE /\ timeouts' = Without(timeouts, k)
            /\ replayClock' = timeouts[k].due
            /\ UNCHANGED firedNotes
    /\ UNCHANGED <<started, mounted, recapState, recapProgress, recapLoop, recapAwaiting,
                   recapStopped>>
    /\ TailUnchanged /\ UNCHANGED backfillVars

\* The page is left: the cleanup effect stops the replay and the listener.
unmount ==
    /\ mounted /\ started
    /\ StopRecap
    /\ recapStopped' = TRUE
    /\ mounted' = FALSE
    /\ stopListening
    /\ UNCHANGED <<started, recapAwaiting, replayClock, firedNotes>>
    /\ UNCHANGED backfillVars

\* The page beside a chain written before the page is started.
ChainUnchanged == UNCHANGED <<composerVars, lastCall, nftVars>>

NextPage ==
    \/ ~started /\ createSession(Owner) /\ UNCHANGED <<nftVars, listenerVars, pageVars>>
    \/ \E s \in 1..nextSessionId, in \in TouchInputs :
            /\ ~started /\ touchResult(s, "alice") = "ok"
            /\ touch("alice", s, in[1], in[2]) /\ UNCHANGED <<nftVars, listenerVars, pageVars>>
    \/ ~started /\ MineBlock /\ UNCHANGED <<nftVars, listenerVars, pageVars>>
    \/ handleStart /\ ChainUnchanged
    \/ handleRecapStart /\ ChainUnchanged
    \/ handleRecapStop /\ ChainUnchanged
    \/ recapResumes /\ ChainUnchanged
    \/ \E k \in 1..Len(timeouts) : emptyNoticeEnds(k) /\ ChainUnchanged
    \/ \E k \in 1..Len(timeouts) : replayNoteFires(k) /\ ChainUnchanged
    \/ \E k \in 1..Len(timeouts) : replayLoopFires(k) /\ ChainUnchanged
    \/ unmount /\ ChainUnchanged
    \/ \E i \in 1..MaxStarts : startResumes(i) /\ UNCHANGED backfillVars
                                /\ UNCHANGED pageVars /\ ChainUnchanged
    \/ \E i \in 1..MaxStarts : startFails(i) /\ UNCHANGED backfillVars
                                /\ UNCHANGED pageVars /\ ChainUnchanged
    \/ fetchHead /\ TailUnchanged /\ UNCHANGED pageVars /\ ChainUnchanged
    \/ fetchHeadFails /\ TailUnchanged /\ UNCHANGED pageVars /\ ChainUnchanged
    \/ fetchSession /\ TailUnchanged /\ UNCHANGED pageVars /\ ChainUnchanged
    \/ fetchSessionFails /\ TailUnchanged /\ UNCHANGED pageVars /\ ChainUnchanged
    \/ fetchChunk /\ TailUnchanged /\ UNCHANGED pageVars /\ ChainUnchanged
    \/ fetchChunkFails /\ TailUnchanged /\ UNCHANGED pageVars /\ ChainUnchanged

SpecPage == Init /\ [][NextPage]_vars

\* The recap of a page that stays mounted, with every query answered.
NextReplay ==
    \/ ~started /\ createSession(Owner) /\ UNCHANGED <<nftVars, listenerVars, pageVars>>
    \/ \E s \in 1..nextSessionId, in \in TouchInputs :
            /\ ~started /\ touchResult(s, "alice") = "ok"
            /\ touch("alice", s, in[1], in[2]) /\ UNCHANGED <<nftVars, listenerVars, pageVars>>
    \/ ~started /\ MineBlock /\ UNCHANGED <<nftVars, listenerVars, pageVars>>
    \/ handleStart /\ ChainUnchanged
    \/ handleRecapStart /\ ChainUnchanged
    \/ handleRecapStop /\ ChainUnchanged
    \/ recapResumes /\ ChainUnchanged
    \/ \E k \in 1..Len(timeouts) : emptyNoticeEnds(k) /\ ChainUnchanged
    \/ \E k \in 1..Len(timeouts) : replayNoteFires(k) /\ ChainUnchanged
    \/ \E k \in 1..Len(timeouts) : replayLoopFires(k) /\ ChainUnchanged
    \/ fetchHead /\ TailUnchanged /\ UNCHANGED pageVars /\ ChainUnchanged
    \/ fetchSession /\ TailUnchanged /\ UNCHANGED pageVars /\ ChainUnchanged
    \/ fetchChunk /\ TailUnchanged /\ UNCHANGED pageVars /\ ChainUnchanged

SpecReplay == Init /\ [][NextReplay]_vars

\* The recap of a page that stays mounted, with queries of the backfill that may
\* fail.
NextRecap ==
    \/ ~started /\ createSession(Owner) /\ UNCHANGED <<nftVars, listenerVars, pageVars>>
    \/ \E s \in 1..nextSessionId, in \in TouchInputs :
            /\ ~started /\ touchResult(s, "alice") = "ok"
            /\ touch("alice", s, in[1], in[2]) /\ UNCHANGED <<nftVars, listenerVars, pageVars>>
    \/ ~started /\ MineBlock /\ UNCHANGED <<nftVars, listenerVars, pageVars>>
    \/ handleStart /\ ChainUnchanged
    \/ handleRecapStart /\ ChainUnchanged
    \/ handleRecapStop /\ ChainUnchanged
    \/ recapResumes /\ ChainUnchanged
    \/ \E k \in 1..Len(timeouts) : emptyNoticeEnds(k) /\ ChainUnchanged
    \/ \E k \in 1..Len(timeouts) : replayNoteFires(k) /\ ChainUnchanged
    \/ \E k \in 1..Len(timeouts) : replayLoopFires(k) /\ ChainUnchanged
    \/ fetchHead /\ TailUnchanged /\ UNCHANGED pageVars /\ ChainUnchanged
    \/ fetchHeadFails /\ TailUnchanged /\ UNCHANGED pageVars /\ ChainUnchanged
    \/ fetchSession /\ TailUnchanged /\ UNCHANGED pageVars /\ ChainUnchanged
    \/ fetchSessionFails /\ TailUnchanged /\ UNCHANGED pageVars /\ ChainUnchanged
    \/ fetchChunk /\ TailUnchanged /\ UNCHANGED pageVars /\ ChainUnchanged
    \/ fetchChunkFails /\ TailUnchanged /\ UNCHANGED pageVars /\ ChainUnchanged

SpecRecap == Init /\ [][NextRecap]_vars

\* ------------------------------------------------------ the replay scheduler
\* scheduleRecapLoop as a function of its argument: the sequences it is given
\* are drawn from the lists fetchAllEvents can return for a session played in
\* up to three blocks in a row, sorted and numbered as the contract numbers the
\* notes of a block.
MaxReplayLen == 5

ReplayBlocks == DeployBlock..(DeployBlock + 2)

\* The n notes of block b, after `before` earlier notes of the session.
BlockRun(b, n, before) ==
    [i \in 1..n |->
        toNoteEvent([sessionId |-> PageSession, player |-> "alice", x |-> 500, y |-> -300,
                     blockNum |-> b, noteIndex |-> i, totalNotesInSession |-> before + i])]

ReplayInputs ==
    {BlockRun(DeployBlock, c[1], 0)
        \o BlockRun(DeployBlock + 1, c[2], c[1])
        \o BlockRun(DeployBlock + 2, c[3], c[1] + c[2]) :
     c \in {d \in (0..MaxReplayLen) \X (0..MaxReplayLen) \X (0..MaxReplayLen) :
                d[1] + d[2] + d[3] \in 1..MaxReplayLen}}

\* handleRecap at the moment fetchAllEvents has returned one of the sequences:
\* the page is started and loading, the listener is stopped.
InitSchedule ==
    /\ NFTInit
    /\ owner = Owner
    /\ nextSessionId = 0
    /\ sessions = [s \in SessionIds |-> ZeroSession]
    /\ hasPlayed = [s \in SessionIds |-> [a \in Addresses |-> FALSE]]
    /\ playerCount = [s \in SessionIds |-> 0]
    /\ notesInBlock = [s \in SessionIds |-> [b \in Blocks |-> 0]]
    /\ events = <<>>
    /\ blockNumber = DeployBlock
    /\ lastCall = Receipt("constructor", 0, Owner, "ok", 0)
    /\ lastProcessedBlock = 0
    /\ pollTimer = 0
    /\ timers = <<>>
    /\ starts = <<>>
    /\ startCount = 0
    /\ ticks = <<>>
    /\ delivered = <<>>
    /\ lastTick = "none"
    /\ listenerStopped = TRUE
    /\ fetchRun = NoFetch
    /\ \E evs \in ReplayInputs :
          returned = <<[NoFetch EXCEPT !.phase = "returned", !.sessionId = PageSession,
                                       !.events = evs, !.list = sortNotes(evs)]>>
    /\ fetchFailures = 0
    /\ started = TRUE
    /\ mounted = TRUE
    /\ recapState = "loading"
    /\ recapProgress = [current |-> 0, total |-> 0]
    /\ recapLoop = TRUE
    /\ timeouts = <<>>
    /\ recapAwaiting = TRUE
    /\ replayClock = 0
    /\ firedNotes = <<>>
    /\ recapStopped = FALSE

NextSchedule ==
    \/ recapResumes /\ ChainUnchanged
    \/ \E k \in 1..Len(timeouts) : replayNoteFires(k) /\ ChainUnchanged
    \/ \E k \in 1..Len(timeouts) : replayLoopFires(k) /\ ChainUnchanged
    \/ handleRecapStop /\ ChainUnchanged

SpecSchedule == InitSchedule /\ [][NextSchedule]_vars

\* ================================================================ properties
\* A session id that createSession has allocated.
Created(s) == 1 <= s /\ s <= nextSessionId

\* The NoteCreated events of session s, in emission order: one per accepted touch.
NotesOf(s) == SelectSeq(events, LAMBDA e : e.type = "NoteCreated" /\ e.sessionId = s)

PlayersOf(s) == {NotesOf(s)[i].player : i \in 1..Len(NotesOf(s))}

\* The step is a transaction (the chain did not move), and it is this call.
TouchCall(s) ==
    blockNumber' = blockNumber /\ lastCall'.op = "touch" /\ lastCall'.sessionId = s
EndCall(s) ==
    blockNumber' = blockNumber /\ lastCall'.op = "endSession" /\ lastCall'.sessionId = s
CreateCall ==
    blockNumber' = blockNumber /\ lastCall'.op = "createSession" /\ events' # events

\* The fields of a session record that count.
Counters(rec) == <<rec.totalNotes, rec.uniquePlayers>>

\* C1: after N accepted touch calls on a session, its totalNotes is N and its
\* uniquePlayers is the number of distinct callers among them.
C1_TouchCounts ==
    \A s \in SessionIds :
        /\ sessions[s].totalNotes = Len(NotesOf(s))
        /\ sessions[s].uniquePlayers = Cardinality(PlayersOf(s))

\* C1 witness: two touches by the same caller were accepted on an active session.
C1_Witness ==
    \E s \in SessionIds :
        /\ sessions[s].active
        /\ Len(NotesOf(s)) = 2
        /\ Cardinality(PlayersOf(s)) = 1

\* C2: a touch on an unknown, ended or expired session fails and changes neither
\* the contract storage nor the event log.
C2_RejectedTouchNoEffect ==
    [][\A s \in SessionIds :
        (TouchCall(s) /\ (~Created(s) \/ ~sessions[s].active \/ Expired(s)))
            => /\ lastCall'.result # "ok"
               /\ UNCHANGED <<contractVars, events>>]_vars

\* C2 witness: a touch on an ended session, which holds a note, was rejected.
C2_Witness ==
    /\ lastCall.op = "touch"
    /\ lastCall.result = "Session not active"
    /\ Created(lastCall.sessionId)
    /\ sessions[lastCall.sessionId].endBlock > 0
    /\ sessions[lastCall.sessionId].totalNotes = 1

\* C3: once a session has been ended, every endSession on it, by any caller at any
\* block, fails with "Not active" and leaves its record as it was.
C3_EndTwiceRejected ==
    [][\A s \in SessionIds :
        (EndCall(s) /\ Created(s) /\ ~sessions[s].active)
            => /\ lastCall'.result = "Not active"
               /\ sessions'[s] = sessions[s]
               /\ UNCHANGED <<contractVars, events>>]_vars

\* C3 witness: an endSession by the owner, at a later block than the first one,
\* was rejected as not active.
C3_Witness ==
    /\ lastCall.op = "endSession"
    /\ lastCall.result = "Not active"
    /\ lastCall.sender = owner
    /\ Created(lastCall.sessionId)
    /\ sessions[lastCall.sessionId].endBlock < blockNumber

\* C4: an allocated session whose active flag is false never becomes active
\* again, and createSession returns an id that was not allocated before.
C4_EndedIsTerminal ==
    [][/\ \A s \in SessionIds :
            (Created(s) /\ ~sessions[s].active) => ~sessions'[s].active
       /\ CreateCall => (~Created(lastCall'.ret) /\ lastCall'.ret = nextSessionId')]_vars

\* C4 witness: a session was ended and a createSession followed it.
C4_Witness ==
    \E s \in SessionIds :
        /\ Created(s) /\ ~sessions[s].active
        /\ lastCall.op = "createSession"
        /\ lastCall.ret > s
        /\ sessions[lastCall.ret].active

\* C5 as claimed: once a session is past its lifetime, no call changes any field
\* of its record.
C5_ExpiredImmutable ==
    [][\A s \in SessionIds :
        (Created(s) /\ Expired(s)) => sessions'[s] = sessions[s]]_vars

\* C5 amended: once a session is past its lifetime no touch changes its record and
\* its counters never change; the only change left is one endSession by its creator
\* or the owner, which sets active to false and endBlock to the current block.
C5_ExpiredOnlyEndable ==
    [][\A s \in SessionIds :
        (Created(s) /\ Expired(s))
            => /\ Counters(sessions'[s]) = Counters(sessions[s])
               /\ TouchCall(s) => sessions'[s] = sessions[s]
               /\ sessions'[s] # sessions[s]
                    => /\ EndCall(s)
                       /\ sessions[s].active
                       /\ lastCall'.sender \in {sessions[s].creator, owner}
                       /\ sessions'[s] = [sessions[s] EXCEPT !.endBlock = blockNumber,
                                                              !.active = FALSE]]_vars

\* C5 witness: a session holding a note was ended after its lifetime had passed.
C5_Witness ==
    \E s \in SessionIds :
        /\ Created(s)
        /\ sessions[s].totalNotes = 1
        /\ ~sessions[s].active
        /\ sessions[s].endBlock > sessions[s].startBlock + MAX_SESSION_BLOCKS

\* C6: a touch on a session whose active flag is true fails with "Session expired"
\* exactly when block.number - startBlock > 43200.
C6_ExpiryBoundary ==
    [][\A s \in SessionIds :
        (TouchCall(s) /\ sessions[s].active)
            => /\ (lastCall'.result = "Session expired")
                    <=> (blockNumber - sessions[s].startBlock > MAX_SESSION_BLOCKS)
               /\ (lastCall'.result = "ok")
                    <=> (blockNumber - sessions[s].startBlock <= MAX_SESSION_BLOCKS)]_vars

\* C6 witness: a touch at startBlock + 43200 was accepted, and the touch at
\* startBlock + 43201 was rejected as expired with the active flag still true.
C6_Witness ==
    \E s \in SessionIds :
        /\ sessions[s].active
        /\ \E i \in 1..Len(NotesOf(s)) :
                NotesOf(s)[i].blockNum = sessions[s].startBlock + MAX_SESSION_BLOCKS
        /\ blockNumber = sessions[s].startBlock + MAX_SESSION_BLOCKS + 1
        /\ lastCall.op = "touch" /\ lastCall.sessionId = s
        /\ lastCall.result = "Session expired"

\* C7: an endSession on an active session succeeds if and only if the caller is
\* its creator or the owner; otherwise it fails with "Not authorized" and changes
\* nothing.
C7_EndAuthorized ==
    [][\A s \in SessionIds :
        (EndCall(s) /\ sessions[s].active)
            => IF lastCall'.sender \in {sessions[s].creator, owner}
               THEN lastCall'.result = "ok"
               ELSE /\ lastCall'.result = "Not authorized"
                    /\ UNCHANGED <<contractVars, events>>]_vars

\* C7 witness: an endSession by a caller who is neither creator nor owner was
\* rejected, and the session is still active.
C7_Witness ==
    /\ lastCall.op = "endSession"
    /\ lastCall.result = "Not authorized"
    /\ sessions[lastCall.sessionId].active
    /\ sessions[lastCall.sessionId].creator # owner

\* C8: a successful endSession sets endBlock to the current block and active to
\* false, keeps the counters, and emits SessionEnded with those counters; the
\* counters of an ended session never change afterwards.
C8_EndFreezes ==
    [][\A s \in SessionIds :
        /\ (EndCall(s) /\ lastCall'.result = "ok")
            => /\ sessions'[s] = [sessions[s] EXCEPT !.endBlock = blockNumber,
                                                     !.active = FALSE]
               /\ events' = Append(events,
                    [type |-> "SessionEnded", sessionId |-> s, endBlock |-> blockNumber,
                     totalNotes |-> sessions[s].totalNotes,
                     uniquePlayers |-> sessions[s].uniquePlayers])
        /\ (Created(s) /\ ~sessions[s].active)
            => Counters(sessions'[s]) = Counters(sessions[s])]_vars

\* C8 witness: a session holding a note was ended, and a touch
\* on it was attempted afterwards.
C8_Witness ==
    /\ lastCall.op = "touch" /\ lastCall.result = "Session not active"
    /\ Len(events) > 0
    /\ events[Len(events)].type = "SessionEnded"
    /\ events[Len(events)].sessionId = lastCall.sessionId
    /\ events[Len(events)].totalNotes = 1
    /\ events[Len(events)].uniquePlayers = 1

\* C9 as claimed: every session record, as getSession returns it, has
\* endBlock = 0 exactly when it is active.
C9_EndBlockIffActive ==
    \A s \in SessionIds :
        (getSession(s).endBlock = 0) <=> getSession(s).active

\* C9 amended: every allocated session has endBlock = 0 exactly when it is active.
C9_CreatedEndBlockIffActive ==
    \A s \in SessionIds :
        Created(s) => ((getSession(s).endBlock = 0) <=> getSession(s).active)

\* C9 witness: one allocated session is active, another has been ended.
C9_Witness ==
    \E s, t \in SessionIds :
        /\ Created(s) /\ Created(t)
        /\ getSession(s).active /\ getSession(s).endBlock = 0
        /\ ~getSession(t).active /\ getSession(t).endBlock > 0

\* C10: every NoteCreated event carries as noteIndex the number of notes accepted
\* so far for its (session, block), itself included, and as totalNotesInSession
\* the number accepted so far for its session, itself included.
C10_NoteNumbering ==
    \A i \in 1..Len(events) :
        events[i].type = "NoteCreated"
            => /\ events[i].noteIndex =
                    Cardinality({j \in 1..i :
                        /\ events[j].type = "NoteCreated"
                        /\ events[j].sessionId = events[i].sessionId
                        /\ events[j].blockNum = events[i].blockNum})
               /\ events[i].totalNotesInSession =
                    Cardinality({j \in 1..i :
                        /\ events[j].type = "NoteCreated"
                        /\ events[j].sessionId = events[i].sessionId})

\* C10 witness: the second note of a session is the first of its block.
C10_Witness ==
    \E i \in 1..Len(events) :
        /\ events[i].type = "NoteCreated"
        /\ events[i].noteIndex = 1
        /\ events[i].totalNotesInSession = 2

\* The coordinate the contract is to emit for an int16 input v.
Nearest(v) == IF v < -1000 THEN -1000 ELSE IF v > 1000 THEN 1000 ELSE v

\* C11: a touch on an active, unexpired session is accepted whatever its
\* coordinates, and emits each coordinate moved to the nearest value of
\* [-1000, 1000].
C11_ClampedNotRejected ==
    [][\A s \in SessionIds :
        (TouchCall(s) /\ sessions[s].active /\ ~Expired(s))
            => /\ lastCall'.result = "ok"
               /\ Len(events') = Len(events) + 1
               /\ LET e == events'[Len(events')]
                      x == lastCall'.args[1]
                      y == lastCall'.args[2]
                  IN  /\ e.type = "NoteCreated"
                      /\ e.x = Nearest(x) /\ e.y = Nearest(y)
                      /\ e.x \in -1000..1000 /\ e.y \in -1000..1000]_vars

\* C11 witness: a touch with x at the int16 minimum and y just above the range was
\* accepted and emitted (-1000, 1000).
C11_Witness ==
    /\ lastCall.op = "touch" /\ lastCall.result = "ok"
    /\ lastCall.args = <<-32768, 1001>>
    /\ events[Len(events)].type = "NoteCreated"
    /\ events[Len(events)].x = -1000
    /\ events[Len(events)].y = 1000

\* hasPlayed is exactly the set of players of accepted touches, and uniquePlayers
\* counts it.
ParticipationExact ==
    \A s \in SessionIds :
        /\ \A a \in Addresses : hasPlayed[s][a] <=> a \in PlayersOf(s)
        /\ sessions[s].uniquePlayers = Cardinality({a \in Addresses : hasPlayed[s][a]})

\* C12: hasPlayed[s][a] holds exactly when a touch of a was accepted in s, it never
\* goes back to false, and uniquePlayers of s is the number of such a.
\* (A step that changes none of hasPlayed, sessions and events keeps
\* ParticipationExact, which reads nothing else.)
C12_Participation ==
    /\ ParticipationExact
    /\ [][\/ UNCHANGED <<hasPlayed, sessions, events>>
          \/ /\ ParticipationExact'
             /\ \A s \in SessionIds, a \in Addresses :
                    hasPlayed[s][a] => hasPlayed'[s][a]]_vars

\* C12 witness: two of the three addresses have played in a session.
C12_Witness ==
    \E s \in SessionIds :
        /\ hasPlayed[s]["alice"] /\ hasPlayed[s]["bob"] /\ ~hasPlayed[s]["owner"]
        /\ sessions[s].uniquePlayers = 2

\* C13: createSession succeeds for every caller, returns the id after the last one
\* allocated, greater than every allocated id, and writes a fresh active session
\* of the caller started at the current block, leaving the other sessions alone.
C13_CreateSession ==
    [][/\ Len(events) < MaxEvents => \A a \in Addresses : ENABLED createSession(a)
       /\ CreateCall
            => /\ lastCall'.result = "ok"
               /\ lastCall'.ret = nextSessionId + 1
               /\ \A s \in SessionIds : Created(s) => lastCall'.ret > s
               /\ sessions'[lastCall'.ret] =
                    [creator |-> lastCall'.sender, startBlock |-> blockNumber,
                     endBlock |-> 0, totalNotes |-> 0, uniquePlayers |-> 0, active |-> TRUE]
               /\ \A s \in SessionIds :
                    s # lastCall'.ret => sessions'[s] = sessions[s]]_vars

\* C13 witness: bob created session 2 at a later block, after session 1 had been
\* ended.
C13_Witness ==
    /\ lastCall.op = "createSession" /\ lastCall.ret = 2 /\ lastCall.sender = "bob"
    /\ sessions[2].creator = "bob" /\ sessions[2].startBlock > sessions[1].startBlock
    /\ ~sessions[1].active /\ sessions[1].endBlock > 0

\* C14: every session has uniquePlayers <= totalNotes.
C14_UniqueAtMostTotal ==
    \A s \in SessionIds : sessions[s].uniquePlayers <= sessions[s].totalNotes

\* C14 witness: a session with two notes of two players, where the bound is met.
C14_Witness ==
    \E s \in SessionIds :
        /\ sessions[s].uniquePlayers = 2
        /\ sessions[s].totalNotes = 2

\* C15: no step lowers the totalNotes or the uniquePlayers of any session.
C15_CountersMonotonic ==
    [][\A s \in SessionIds :
        /\ sessions'[s].totalNotes >= sessions[s].totalNotes
        /\ sessions'[s].uniquePlayers >= sessions[s].uniquePlayers]_vars

\* C15 witness: with a note in session 1, a second session exists and the last
\* call, on another id, failed.
C15_Witness ==
    /\ nextSessionId = 2
    /\ sessions[1].totalNotes = 1
    /\ lastCall.result # "ok"
    /\ lastCall.sessionId # 1

\* C16 as claimed: a touch on an id that was never created is rejected with an
\* error of its own, which is neither that of an ended nor that of an expired
\* session.
C16_ThreeCauses ==
    [][\A s \in SessionIds :
        (TouchCall(s) /\ ~Created(s))
            => lastCall'.result \notin {"ok", "Session not active", "Session expired"}]_vars

\* C16 amended: a touch on an id never created and a touch on an ended session
\* are both rejected with "Session not active"; a touch on an active session past
\* its lifetime is rejected with "Session expired".
C16_TwoCauses ==
    [][\A s \in SessionIds :
        TouchCall(s)
            => lastCall'.result =
                IF ~Created(s) \/ ~sessions[s].active THEN "Session not active"
                ELSE IF blockNumber - sessions[s].startBlock > MAX_SESSION_BLOCKS
                     THEN "Session expired"
                ELSE "ok"]_vars

\* C16 witness: a touch on the never-created id 0 was rejected as not active, at a
\* block where an ended session is also past its lifetime.
C16_Witness ==
    /\ lastCall.op = "touch" /\ lastCall.sessionId = 0
    /\ lastCall.result = "Session not active"
    /\ \E s \in SessionIds :
            Created(s) /\ ~sessions[s].active /\ Expired(s)

\* C17: getSession returns the all-zero record for an id never created, and a
\* record with startBlock = 0 for no other id.
C17_GetSessionExistence ==
    \A s \in SessionIds :
        /\ ~Created(s) => getSession(s) = ZeroSession
        /\ (getSession(s).startBlock = 0) <=> ~Created(s)

\* C17 witness: an ended session, inactive like an unknown id, is told apart from
\* one by its startBlock.
C17_Witness ==
    \E s, t \in SessionIds :
        /\ Created(s) /\ ~getSession(s).active /\ getSession(s).startBlock > 0
        /\ ~Created(t) /\ ~getSession(t).active /\ getSession(t).startBlock = 0
        /\ lastCall.op = "endSession" /\ lastCall.result = "ok"


\* A step taken by mintSession: the call itself, or its return from the receiver.
MintCall == lastCall'.op = "mintSession"

\* The caller has played in the session, which exists and has ended.
MintEligible(sessionId, player) ==
    /\ hasPlayed[sessionId][player]
    /\ sessions[sessionId].startBlock > 0
    /\ ~sessions[sessionId].active

\* C18: mintSession(sessionId) gets past its checks, and returns a token, only
\* for a caller who has played in that session and only when the session exists
\* and has ended; in every other case it fails, mints nothing (no token id is
\* allocated, no token gets an owner) and leaves sessionPlayerToken, tokenSession
\* and tokenMinter unchanged.
C18_MintOnlyEndedParticipant ==
    [][MintCall =>
        /\ lastCall'.result \in {"ok", "in receiver"}
                => MintEligible(lastCall'.sessionId, lastCall'.sender)
        /\ ~MintEligible(lastCall'.sessionId, lastCall'.sender)
                => /\ lastCall'.result \in {"Not a participant", "Session still active",
                                             "Session does not exist"}
                   /\ UNCHANGED <<nextTokenId, tokenOwner, sessionPlayerToken,
                                  tokenSession, tokenMinter>>]_vars

\* C18 witness: a participant of an ended session has minted token 1, and the
\* last mintSession call, by a non-participant, was rejected.
C18_Witness ==
    /\ tokenMinter[1] # ZeroAddress
    /\ sessionPlayerToken[tokenSession[1]][tokenMinter[1]] = 1
    /\ lastCall.op = "mintSession"
    /\ lastCall.result = "Not a participant"


\* The notes of session s the chain holds in blocks fromBlock..toBlock.
ChainNotes(s, fromBlock, toBlock) ==
    {toNoteEvent(events[i]) : i \in {j \in 1..Len(events) :
        /\ events[j].type = "NoteCreated" /\ events[j].sessionId = s
        /\ fromBlock <= events[j].blockNum /\ events[j].blockNum <= toBlock}}

\* How many times onNote was called with this note.
Deliveries(note) == Cardinality({i \in 1..Len(delivered) : delivered[i] = note})

\* C19: within one run of live-tail for session S (startListening called once),
\* each NoteCreated event of S in a block after the head read at start is passed
\* to onNote exactly once: never twice, and once the high-water mark has passed
\* its block it has been passed.
C19_DeliveredExactlyOnce ==
    (startCount = 1 /\ Len(timers) = 1) =>
        /\ \A i \in 1..Len(delivered) : Deliveries(delivered[i]) = 1
        /\ \A note \in ChainNotes(timers[1].sessionId, timers[1].startHead + 1,
                                  lastProcessedBlock) : Deliveries(note) >= 1

\* C20: once stopListening has been called, and until startListening is called
\* again, onNote is not invoked and no poll tick starts.
C20_StopIsFinal ==
    [][(listenerStopped /\ listenerStopped')
            => (delivered' = delivered /\ Len(ticks') <= Len(ticks))]_vars


\* The intervals of the listener that the runtime still fires.
LiveTimers == {t \in 1..Len(timers) : timers[t].live}

\* C21: startListening on a running listener creates no second ticker: in every
\* reachable state at most one interval set by the listener is live (so that the
\* one interval stopListening clears is all of its polling).
C21_SingleTicker == Cardinality(LiveTimers) <= 1

\* An interval callback ends in its catch.
TickFailed == Len(ticks') < Len(ticks) /\ lastTick' = "error"

\* A tick asks for logs.
TickAsks(i) ==
    Len(ticks') = Len(ticks) /\ ticks[i].phase = "head" /\ ticks'[i].phase = "logs"

\* C23: a poll tick whose head query or log query fails delivers nothing, leaves
\* lastProcessedBlock as it was and leaves the interval running; and every tick
\* that asks for logs asks for the blocks after lastProcessedBlock up to the head,
\* so the range of the failed tick is asked for again.
C23_FailedTickRetried ==
    [][/\ TickFailed => UNCHANGED <<delivered, lastProcessedBlock, timers, pollTimer>>
       /\ \A i \in 1..Len(ticks) :
            TickAsks(i) => /\ ticks'[i].fromBlock = lastProcessedBlock + 1
                           /\ ticks'[i].currentBlock = getBlockNumber]_vars

\* C23 witness: a tick has failed, the interval is still live, and a later tick
\* is asking again for the blocks after lastProcessedBlock, which hold a note
\* that was not delivered.
C23_Witness ==
    /\ lastTick = "error"
    /\ LiveTimers # {}
    /\ delivered = <<>>
    /\ \E i \in 1..Len(ticks) :
        /\ ticks[i].phase = "logs"
        /\ ticks[i].fromBlock = lastProcessedBlock + 1
        /\ getContractEvents(ticks[i].fromBlock, ticks[i].currentBlock) # <<>>


\* The composite key order of two notes: (blockNum, noteIndex), ascending.
KeyLeq(e1, e2) ==
    \/ e1.blockNum < e2.blockNum
    \/ e1.blockNum = e2.blockNum /\ e1.noteIndex <= e2.noteIndex

\* C26: the notes passed to onNote by one run of live-tail are in the order of
\* backfill, ascending by (blockNum, noteIndex) over the whole run, and all of
\* them are notes of the session listened to.
C26_TailInKeyOrder ==
    /\ \A i, j \in 1..Len(delivered) : i < j => KeyLeq(delivered[i], delivered[j])
    /\ \A i \in 1..Len(delivered) : delivered[i].sessionId \in ListenSessions


\* The finished fetchAllEvents calls that returned from the scan.
Scanned == {k \in 1..Len(returned) : returned[k].phase = "returned"}

\* Strictly ascending by (blockNum, noteIndex).
KeySorted(list) ==
    \A i, j \in 1..Len(list) : i < j => KeyLeq(list[i], list[j]) /\ list[i] # list[j]

\* C24: the list fetchAllEvents(S) returns holds only notes of session S and is
\* sorted ascending by (blockNum, noteIndex), in whatever order the provider
\* returned the logs of each chunk.
C24_BackfillFilteredSorted ==
    \A k \in 1..Len(returned) :
        /\ \A i \in 1..Len(returned[k].list) :
                returned[k].list[i].sessionId = returned[k].sessionId
        /\ \A i, j \in 1..Len(returned[k].list) :
                i < j => KeyLeq(returned[k].list[i], returned[k].list[j])

\* C24 witness: a call has returned two notes in key order that the provider
\* had handed over in the opposite order.
C24_Witness ==
    \E k \in Scanned :
        /\ Len(returned[k].list) = 2
        /\ returned[k].events = <<returned[k].list[2], returned[k].list[1]>>

\* No note occurs twice in any returned list.
DuplicateFree ==
    \A k \in 1..Len(returned) : \A i, j \in 1..Len(returned[k].list) :
        i # j => returned[k].list[i] # returned[k].list[j]

\* The same queries failed in two calls.
SameFailures(r1, r2) ==
    r1.phase = r2.phase /\ r1.failed = r2.failed /\ r1.sessionRead = r2.sessionRead

ChunkOf(r, b) == r.startBlock + CHUNK_SIZE * ((b - r.startBlock) \div CHUNK_SIZE)

\* The notes of the session in the chunks of the walk of r that were fetched.
FetchedNotes(r) ==
    {n \in ChainNotes(r.sessionId, r.startBlock, r.currentBlock) :
        ChunkOf(r, n.blockNum) \notin r.failed}

\* C27: a chunk whose fetch fails is skipped, without retry and without ending
\* the walk: the walk goes on to the head, and the returned list holds exactly
\* the session's notes of the chunks whose fetch succeeded, each once, sorted.
C27_FailedChunkSkipped ==
    \A k \in Scanned :
        /\ returned[k].from > returned[k].currentBlock
        /\ {returned[k].list[i] : i \in 1..Len(returned[k].list)} = FetchedNotes(returned[k])
        /\ KeySorted(returned[k].list)

\* C27 witness: the chunk holding a note of the session failed, and the call
\* returned the note of a later chunk.
C27_Witness ==
    \E k \in Scanned :
        /\ returned[k].failed # {}
        /\ returned[k].list # <<>>
        /\ \E n \in ChainNotes(returned[k].sessionId, returned[k].startBlock,
                               returned[k].currentBlock) :
                ChunkOf(returned[k], n.blockNum) \in returned[k].failed

\* C28: fetchAllEvents never rejects: when the head query, the session read or
\* a chunk fetch fails, the call goes on or returns a list, and every finished
\* call has returned a list.
C28_FetchNeverThrows ==
    /\ [](\A k \in 1..Len(returned) : returned[k].phase \in {"returned", "head failed"})
    /\ [][fetchFailures' > fetchFailures =>
            \/ fetchRun'.phase = "chunks" /\ returned' = returned
            \/ /\ fetchRun' = NoFetch
               /\ Len(returned') = Len(returned) + 1
               /\ returned'[Len(returned')].phase \in {"returned", "head failed"}]_vars

\* C28 witness: the head query of a call failed and the call returned the
\* empty list.
C28_Witness ==
    \E k \in 1..Len(returned) : returned[k].phase = "head failed" /\ returned[k].list = <<>>


\* C22: on the display page live-tail and recap are never active together: no
\* state has a live poll interval while the backfill fetch of a recap is under
\* way or a timeout of the replay is pending.
C22_TailXorRecap ==
    ~(/\ LiveTimers # {}
      /\ \/ recapAwaiting
         \/ fetchRun.phase # "idle"
         \/ ReplayTimeouts # <<>>)

\* C29: once stopRecap has been called, and until a recap is requested again, no
\* timeout of the replay is pending (so no note is replayed and the replay does
\* not restart) and the progress is {current: 0, total: 0}.
C29_StopIsTotal ==
    recapStopped => /\ ReplayTimeouts = <<>>
                    /\ recapProgress = [current |-> 0, total |-> 0]

\* The largest offset of the events of the replay.
MaxOffset ==
    CHOOSE m \in {timings(recapEvents)[i] : i \in 1..Len(recapEvents)} :
        \A i \in 1..Len(recapEvents) : timings(recapEvents)[i] <= m

\* How often v occurs in seq, under the test on its elements.
Count(seq, Test(_)) == Cardinality({k \in 1..Len(seq) : Test(seq[k])})

\* A replay is playing and has not been stopped.
Replaying == recapState = "playing" /\ ~recapStopped

\* C30: while the replay is not cancelled, each iteration fires every event of
\* the captured sequence exactly once (an event has either fired once or has one
\* timeout pending, never both), the restart is pending for max(offsetMs) + 2000
\* ms after the start of the iteration and fires only when every event has
\* fired, and the restart starts a new iteration (none is the last).
C30_ReplayLoops ==
    /\ [](Replaying =>
        /\ \A i \in 1..Len(recapEvents) :
              Count(firedNotes, LAMBDA f : f = i)
                + Count(timeouts, LAMBDA t : t.kind = "note" /\ t.i = i) = 1
        /\ Count(timeouts, LAMBDA t : t.kind = "loop" /\ t.due = MaxOffset + LOOP_PAUSE_MS) = 1
        /\ Count(timeouts, LAMBDA t : t.kind = "loop") = 1
        /\ replayClock <= MaxOffset
        /\ recapLoop)
    /\ [][(Replaying /\ Replaying' /\ Len(firedNotes') < Len(firedNotes)) =>
            /\ firedNotes = [i \in 1..Len(recapEvents) |-> i]
            /\ firedNotes' = <<>>
            /\ replayClock' = 0
            /\ Len(ReplayTimeouts') = Len(recapEvents) + 1]_vars

\* C30 witness: two events have been replayed, the second 80 ms after the
\* first, and the replay has restarted: a new iteration is pending in full
\* while the progress still shows the end of the last one.
C30_Witness ==
    /\ Replaying
    /\ Len(recapEvents) = 2
    /\ MaxOffset = INTRA_BLOCK_GAP_MS
    /\ firedNotes = <<>>
    /\ recapProgress = [current |-> 2, total |-> 2]
    /\ Len(ReplayTimeouts) = 3

\* The step in which handleRecap continues after its await of fetchAllEvents.
RecapContinues == recapAwaiting /\ ~recapAwaiting'

\* C31: when recap is requested and the fetched sequence is empty, the recap
\* state becomes "empty" (not "idle", not "playing"), no timeout of a replay is
\* set and no event is replayed while the state lasts; a sequence that is not
\* empty gives "playing".
C31_EmptyRecap ==
    /\ [](recapState = "empty" =>
            /\ recapEvents = <<>>
            /\ ReplayTimeouts = <<>>)
    /\ [][RecapContinues =>
            IF recapEvents = <<>>
            THEN /\ recapState' = "empty"
                 /\ ReplayTimeouts' = <<>>
                 /\ firedNotes' = firedNotes
            ELSE recapState' = "playing"]_vars
    /\ [][recapState = "empty" => firedNotes' = firedNotes]_vars

\* C31 witness: the recap of a session without notes has ended in "empty".
C31_Witness ==
    /\ recapState = "empty"
    /\ Created(PageSession)
    /\ NotesOf(PageSession) = <<>>
    /\ Len(returned) = 1
    /\ fetchFailures = 0

\* How many events immediately before the i-th, without a gap, share its block.
RunBefore(evs, i) ==
    Cardinality({j \in 1..(i - 1) : \A m \in j..(i - 1) : evs[m].blockNum = evs[i].blockNum})

OffsetMs(evs, i) == (evs[i].blockNum - evs[1].blockNum) * 200 + RunBefore(evs, i) * 80

\* The offsets at which the notes of the replay are pending, by position.
PendingOffsets ==
    {<<timeouts[k].i, timeouts[k].due>> : k \in {n \in 1..Len(timeouts) : timeouts[n].kind = "note"}}

\* C32: the offset of the i-th event of a replay is (blockNum[i] - blockNum[1])
\* * 200 + k * 80, with k the number of events immediately before it in the
\* same block; it depends on the sequence alone, so every iteration of a replay
\* (a new computation of the schedule) sets its timeouts at the same offsets.
C32_Offsets ==
    /\ [](\A r \in 1..Len(returned) :
            timings(returned[r].list) =
                [i \in 1..Len(returned[r].list) |-> OffsetMs(returned[r].list, i)])
    /\ [](Replaying =>
            \A p \in PendingOffsets : p[2] = OffsetMs(recapEvents, p[1]))
    /\ [][(Replaying /\ Replaying' /\ Len(firedNotes') < Len(firedNotes)) =>
            PendingOffsets' = {<<i, OffsetMs(recapEvents, i)>> : i \in 1..Len(recapEvents)}]_vars

\* C32 witness: a replay of two events of different blocks has restarted; the
\* second is pending 200 ms per block after the first, with no 80 ms step.
C32_Witness ==
    /\ Replaying
    /\ Len(recapEvents) = 2
    /\ recapEvents[2].blockNum > recapEvents[1].blockNum
    /\ recapProgress = [current |-> 2, total |-> 2]
    /\ firedNotes = <<>>
    /\ PendingOffsets =
          {<<1, 0>>, <<2, (recapEvents[2].blockNum - recapEvents[1].blockNum) * 200>>}

\* C33: for a sequence sorted by (blockNum, noteIndex) the offsets never
\* decrease along the sequence, so within an iteration of the replay the events
\* fire in the order of the sequence and the progress shows 1, 2, ..., total.
C33_ReplayInOrder ==
    /\ [](KeySorted(recapEvents) =>
            \A i, j \in 1..Len(recapEvents) :
                i < j => timings(recapEvents)[i] <= timings(recapEvents)[j])
    /\ [](Replaying => firedNotes = [i \in 1..Len(firedNotes) |-> i])
    /\ [][(Replaying /\ Replaying' /\ Len(firedNotes') = Len(firedNotes) + 1) =>
            recapProgress'.current = Len(firedNotes')]_vars

\* The ranges asked so far are contiguous from start, none longer than 5,000
\* blocks or beyond head.
Contiguous(asked, start, head) ==
    \A i \in 1..Len(asked) :
        /\ asked[i][1] = (IF i = 1 THEN start ELSE asked[i - 1][2] + 1)
        /\ asked[i][1] <= asked[i][2]
        /\ asked[i][2] - asked[i][1] + 1 <= 5000
        /\ asked[i][2] <= head

\* C34: the chunk walk of a backfill asks for ranges [from, to] that partition
\* [startBlock, head]: contiguous, disjoint, of at most 5,000 blocks each, the
\* first from startBlock, the last to head; none when startBlock > head.  It
\* ends: every chunk moves `from` forward, and a walk has at most
\* (head - startBlock) / 5,000 + 1 chunks.
C34_ChunksPartition ==
    /\ [](\A k \in Scanned :
            LET r == returned[k] IN
            /\ Contiguous(r.asked, r.startBlock, r.currentBlock)
            /\ IF r.startBlock > r.currentBlock
               THEN r.asked = <<>>
               ELSE /\ r.asked # <<>>
                    /\ r.asked[Len(r.asked)][2] = r.currentBlock
                    /\ Len(r.asked) <= (r.currentBlock - r.startBlock) \div 5000 + 1)
    /\ [](fetchRun.phase = "chunks" =>
            /\ Contiguous(fetchRun.asked, fetchRun.startBlock, fetchRun.currentBlock)
            /\ fetchRun.from <= fetchRun.currentBlock
            /\ fetchRun.from = (IF fetchRun.asked = <<>> THEN fetchRun.startBlock
                                ELSE fetchRun.asked[Len(fetchRun.asked)][2] + 1)
            /\ Len(fetchRun.asked) <=
                    (fetchRun.currentBlock - fetchRun.startBlock) \div 5000)
    /\ [][(fetchRun.phase = "chunks" /\ fetchRun'.phase = "chunks" /\ fetchRun' # fetchRun) =>
            fetchRun'.from > fetchRun.from]_vars

\* C34 witness: a walk of exactly 5,001 blocks has ended: a full chunk, then a
\* chunk of the one block that is left.
C34_Witness ==
    \E k \in Scanned :
        /\ returned[k].sessionRead
        /\ returned[k].startBlock = DeployBlock
        /\ returned[k].asked = <<<<DeployBlock, DeployBlock + 4999>>,
                                 <<DeployBlock + 5000, DeployBlock + 5000>>>>

\* The start a finished walk should have: the startBlock the session read gave,
\* or the fallback when the read failed or gave none.  (The chain stands still
\* once the session has been read, so the storage at the head is what was read.)
ResolvedStart(r) ==
    IF r.sessionRead /\ sessionAtHead(r.sessionId).startBlock > 0
    THEN sessionAtHead(r.sessionId).startBlock
    ELSE IF r.currentBlock > 50000 THEN r.currentBlock - 50000 ELSE 0

\* C35 as claimed: the walk starts at the session's startBlock when the read
\* gave one, else at head - 50,000 (0 when head <= 50,000); the start is never
\* negative, and never beyond head when the session exists.
C35_StartResolved ==
    \A k \in Scanned :
        /\ returned[k].startBlock = ResolvedStart(returned[k])
        /\ returned[k].startBlock >= 0
        /\ Created(returned[k].sessionId) => returned[k].startBlock <= returned[k].currentBlock

\* C35, amended: the same, with the start not beyond head when the session
\* existed at the head that was read, or when the fallback was used.
C35_StartResolvedAtHead ==
    \A k \in Scanned :
        LET r == returned[k] IN
        /\ r.startBlock = ResolvedStart(r)
        /\ r.startBlock >= 0
        /\ (\/ sessions[r.sessionId].startBlock \in 1..r.currentBlock
            \/ ~r.sessionRead
            \/ sessionAtHead(r.sessionId).startBlock = 0) => r.startBlock <= r.currentBlock

\* C35 witness: the read of an existing session failed under a head beyond
\* 50,000, and the walk started 50,000 blocks before the head.
C35_Witness ==
    \E k \in Scanned :
        /\ Created(returned[k].sessionId)
        /\ ~returned[k].sessionRead
        /\ returned[k].currentBlock > 50000
        /\ returned[k].startBlock = returned[k].currentBlock - 50000
        /\ returned[k].asked # <<>>

\* The tokens minted for player p in session s.
TokensOf(s, p) ==
    {t \in TokenIds : tokenOwner[t] # ZeroAddress /\ tokenSession[t] = s /\ tokenMinter[t] = p}

\* C36: when no mintSession call is under way, whatever calls were made before,
\* also from inside the receiver callback of _safeMint, each (sessionId,
\* player) pair has at most one token, and sessionPlayerToken[sessionId][player]
\* is its id (0 when there is none).
C36_OneTokenPerPlayer ==
    mintStack = <<>> =>
        \A s \in SessionIds, p \in Addresses :
            /\ Cardinality(TokensOf(s, p)) <= 1
            /\ TokensOf(s, p) = (IF sessionPlayerToken[s][p] = 0 THEN {}
                                 ELSE {sessionPlayerToken[s][p]})

\* C37: in a run of the listener the high-water mark lastProcessedBlock never
\* decreases, however the interval callbacks and the answers to their queries
\* interleave.
C37_MarkNeverDecreases ==
    [][lastProcessedBlock' >= lastProcessedBlock]_vars

\* C38: at any block a touch of a session id, created or not, is accepted
\* exactly when isSessionActive of that id is true at that block (a touch that
\* ends in an overflow panic aside); an accepted touch leaves the view true.
C38_TouchIffViewActive ==
    [][\A s \in SessionIds :
        (TouchCall(s) /\ lastCall'.result # "Panic")
            => /\ (lastCall'.result = "ok") <=> isSessionActive(s)
               /\ (lastCall'.result = "ok") => isSessionActive(s)']_vars

\* C38 witness: a touch has just been rejected as expired on a session whose
\* active flag is still set, and the view says inactive; the same session had
\* accepted a touch before.
C38_Witness ==
    /\ lastCall.op = "touch"
    /\ lastCall.result = "Session expired"
    /\ sessions[lastCall.sessionId].active
    /\ ~isSessionActive(lastCall.sessionId)
    /\ sessions[lastCall.sessionId].totalNotes > 0

\* Everything the contract keeps for session o is as it was.
SessionUntouched(o) ==
    /\ sessions'[o] = sessions[o]
    /\ hasPlayed'[o] = hasPlayed[o]
    /\ playerCount'[o] = playerCount[o]
    /\ notesInBlock'[o] = notesInBlock[o]

\* C39: a touch or an endSession on session s, accepted or rejected, leaves the
\* record, the participants, the player count and the per-block note counters
\* of every other session as they were, and createSession leaves every session
\* but the one it creates as it was.  (The receipt names the session of the
\* call; for createSession, the new id.)
C39_SessionsIndependent ==
    [][(blockNumber' = blockNumber /\ lastCall'.op \in {"touch", "endSession", "createSession"})
        => \A o \in SessionIds \ {lastCall'.sessionId} : SessionUntouched(o)]_vars

\* C39 witness: of two sessions the second has just been touched: it has a
\* note, a player and a count in this block, and the first has none.
C39_Witness ==
    /\ nextSessionId = 2
    /\ lastCall.op = "touch" /\ lastCall.result = "ok" /\ lastCall.sessionId = 2
    /\ sessions[2].totalNotes = 1 /\ playerCount[2] = 1
    /\ notesInBlock[2][blockNumber] = 1 /\ hasPlayed[2][lastCall.sender]
    /\ sessions[1].active /\ sessions[1].totalNotes = 0 /\ playerCount[1] = 0
    /\ notesInBlock[1][blockNumber] = 0 /\ ~hasPlayed[1][lastCall.sender]

\* The recap flow leaves loading, playing or empty for idle on a page that stays.
RecapExits ==
    /\ recapState \in {"loading", "playing", "empty"}
    /\ recapState' = "idle"
    /\ mounted'

\* C40: on a started page every exit of the recap flow starts the listener
\* again, so that in "idle" the last thing asked of the listener is to listen,
\* and in "playing" no poll interval is live.
C40_ExitResumesLive ==
    /\ [][RecapExits => startCount' = startCount + 1 /\ ~listenerStopped']_vars
    /\ []((started /\ mounted /\ recapState = "idle") => ~listenerStopped)
    /\ []((mounted /\ recapState = "playing") => LiveTimers = {})

====
